---------------------------- MODULE Spec2Model ----------------------------
(***************************************************************************)
(* A model of the staking pallet's era/session scheduler, snapshot         *)
(* builder, reward distributor and deferred slashing                       *)
(* (frame/staking/src/pallet/impls.rs) and of SnapshotBounds               *)
(* (frame/election-provider-support/src/lib.rs).                           *)
(*                                                                         *)
(* Storage items are the module's variables, named as in the pallet.  The  *)
(* pallet's functions are operators from a storage record to a record      *)
(* [st, ret]: the storage after the call and the value returned.  An       *)
(* action reads the variables into a storage record, applies one entry     *)
(* point and commits the result.                                           *)
(***************************************************************************)
EXTENDS Integers, Sequences, FiniteSets, TLC

\* ------------------------------------------------------------------------
\* Option<T>, storage maps
\* ------------------------------------------------------------------------
None == << >>
Some(x) == << x >>
IsSome(o) == o # None
Unwrap(o) == o[1]
UnwrapOr(o, d) == IF o = None THEN d ELSE o[1]

EmptyMap == << >>
Get(m, k) == IF k \in DOMAIN m THEN Some(m[k]) ELSE None
GetOr(m, k, d) == IF k \in DOMAIN m THEN m[k] ELSE d
Put(m, k, v) == [x \in (DOMAIN m) \cup {k} |-> IF x = k THEN v ELSE m[x]]
Remove(m, k) == [x \in (DOMAIN m) \ {k} |-> m[x]]
\* remove_prefix(era, None) of a double map keyed by <<era, account>>
RemovePrefix(m, era) == [x \in {y \in DOMAIN m : y[1] # era} |-> m[x]]

Max(a, b) == IF a >= b THEN a ELSE b
Min(a, b) == IF a <= b THEN a ELSE b
SaturatingSub(a, b) == IF a >= b THEN a - b ELSE 0

RECURSIVE SumSeq(_)
SumSeq(s) == IF s = << >> THEN 0 ELSE Head(s) + SumSeq(Tail(s))

\* ------------------------------------------------------------------------
\* Bounds of the model
\* ------------------------------------------------------------------------
\* the last session index the session layer plans
MaxSession == 6
\* offence reports per run
MaxOffences == 2
\* reward points a single era accumulates
MaxPoints == 30

\* ------------------------------------------------------------------------
\* Runtime configuration (Config items and genesis-set storage values)
\* ------------------------------------------------------------------------
SessionsPerEra == 2
BondingDuration == 2
SlashDeferDuration == 1
MinimumValidatorCount == 2
MaxNominatorRewardedPerValidator == 1
Invulnerables == {3}

\* accounts: stashes 1..5, each bonded to controller stash + 10; 6 is not bonded
Stashes == {1, 2, 3, 4, 5}
Unbonded == 6
ControllerOf(s) == s + 10
Forcing == {"NotForcing", "ForceNew", "ForceNone", "ForceAlways"}

VARIABLES
    \* era / session scheduler
    CurrentEra, ActiveEra, ErasStartSessionIndex, ForceEra, CurrentPlannedSession,
    BondedEras, HistoryDepth,
    \* per-era facts
    ErasStakers, ErasStakersClipped, ErasValidatorPrefs, ErasTotalStake,
    ErasValidatorReward, ErasRewardPoints,
    \* slashing
    OffendingValidators, EarliestUnappliedSlash, UnappliedSlashes, SlashingSpans,
    ValidatorSlashInEra,
    \* registry
    Validators, Nominators, CounterForValidators, CounterForNominators,
    \* bonding and currency
    Bonded, Ledger, Payee, Balances, Locks,
    \* the session layer: the last session planned, started and ended (-1: none)
    planned, started, ended,
    \* the last call made and what it returned
    lastCall,
    \* history: successful triggers, tolerated empty first elections, slashes
    \* queued (with their queue key), slashes applied (with the active era),
    \* amounts paid per era, (stash, era) pairs whose payout call succeeded
    triggers, tolerated, offences, applied, paid, claimedOk

storageVars == << CurrentEra, ActiveEra, ErasStartSessionIndex, ForceEra,
    CurrentPlannedSession, BondedEras, HistoryDepth, ErasStakers, ErasStakersClipped,
    ErasValidatorPrefs, ErasTotalStake, ErasValidatorReward, ErasRewardPoints,
    OffendingValidators, EarliestUnappliedSlash, UnappliedSlashes, SlashingSpans,
    ValidatorSlashInEra,
    Validators, Nominators, CounterForValidators, CounterForNominators,
    Bonded, Ledger, Payee, Balances, Locks >>

vars == << storageVars, planned, started, ended, lastCall, triggers, tolerated,
    offences, applied, paid, claimedOk >>

\* the storage as one record
Storage == [
    CurrentEra |-> CurrentEra, ActiveEra |-> ActiveEra,
    ErasStartSessionIndex |-> ErasStartSessionIndex, ForceEra |-> ForceEra,
    CurrentPlannedSession |-> CurrentPlannedSession, BondedEras |-> BondedEras,
    HistoryDepth |-> HistoryDepth,
    ErasStakers |-> ErasStakers, ErasStakersClipped |-> ErasStakersClipped,
    ErasValidatorPrefs |-> ErasValidatorPrefs, ErasTotalStake |-> ErasTotalStake,
    ErasValidatorReward |-> ErasValidatorReward, ErasRewardPoints |-> ErasRewardPoints,
    OffendingValidators |-> OffendingValidators,
    EarliestUnappliedSlash |-> EarliestUnappliedSlash,
    UnappliedSlashes |-> UnappliedSlashes, SlashingSpans |-> SlashingSpans,
    ValidatorSlashInEra |-> ValidatorSlashInEra,
    Validators |-> Validators, Nominators |-> Nominators,
    CounterForValidators |-> CounterForValidators,
    CounterForNominators |-> CounterForNominators,
    Bonded |-> Bonded, Ledger |-> Ledger, Payee |-> Payee, Balances |-> Balances,
    Locks |-> Locks,
    applied |-> applied ]

Commit(st) ==
    /\ CurrentEra' = st.CurrentEra
    /\ ActiveEra' = st.ActiveEra
    /\ ErasStartSessionIndex' = st.ErasStartSessionIndex
    /\ ForceEra' = st.ForceEra
    /\ CurrentPlannedSession' = st.CurrentPlannedSession
    /\ BondedEras' = st.BondedEras
    /\ HistoryDepth' = st.HistoryDepth
    /\ ErasStakers' = st.ErasStakers
    /\ ErasStakersClipped' = st.ErasStakersClipped
    /\ ErasValidatorPrefs' = st.ErasValidatorPrefs
    /\ ErasTotalStake' = st.ErasTotalStake
    /\ ErasValidatorReward' = st.ErasValidatorReward
    /\ ErasRewardPoints' = st.ErasRewardPoints
    /\ OffendingValidators' = st.OffendingValidators
    /\ EarliestUnappliedSlash' = st.EarliestUnappliedSlash
    /\ UnappliedSlashes' = st.UnappliedSlashes
    /\ SlashingSpans' = st.SlashingSpans
    /\ ValidatorSlashInEra' = st.ValidatorSlashInEra
    /\ Validators' = st.Validators
    /\ Nominators' = st.Nominators
    /\ CounterForValidators' = st.CounterForValidators
    /\ CounterForNominators' = st.CounterForNominators
    /\ Bonded' = st.Bonded
    /\ Ledger' = st.Ledger
    /\ Payee' = st.Payee
    /\ Balances' = st.Balances
    /\ Locks' = st.Locks
    /\ applied' = st.applied


\* ------------------------------------------------------------------------
\* ElectionResultConsumer
\* ------------------------------------------------------------------------
\* T::CurrencyToVote with a total issuance for which one vote is worth
\* CurrencyToVoteFactor units of currency
CurrencyToVoteFactor == 2
to_currency(e) == e * CurrencyToVoteFactor
to_vote(b) == b \div CurrencyToVoteFactor

DefaultExposure == [total |-> 0, own |-> 0, others |-> << >>]
DefaultPrefs == [commission |-> 0, blocked |-> FALSE]

\* the exposure whose total leaves the winner's own stake out
ExposureOfSupportBackersOnly(validator, voters) ==
    LET stakes == [i \in 1..Len(voters) |->
                      [who |-> voters[i][1], value |-> to_currency(voters[i][2])]]
        mine == SelectSeq(stakes, LAMBDA x : x.who = validator)
        others == SelectSeq(stakes, LAMBDA x : x.who # validator)
    IN  [ own |-> SumSeq([i \in 1..Len(mine) |-> mine[i].value]),
          others |-> others,
          total |-> SumSeq([i \in 1..Len(others) |-> others[i].value]) ]

\* One winner's support (a sequence of <<voter, weight>>) as an Exposure.
ExposureOfSupport(validator, voters) ==
    LET stakes == [i \in 1..Len(voters) |->
                      [who |-> voters[i][1], value |-> to_currency(voters[i][2])]]
        mine == SelectSeq(stakes, LAMBDA x : x.who = validator)
    IN  [ own |-> SumSeq([i \in 1..Len(mine) |-> mine[i].value]),
          others |-> SelectSeq(stakes, LAMBDA x : x.who # validator),
          total |-> SumSeq([i \in 1..Len(stakes) |-> stakes[i].value]) ]

\* supports: a sequence of <<validator, [total, voters]>>
collect_exposures(supports) ==
    [i \in 1..Len(supports) |->
        << supports[i][1], ExposureOfSupport(supports[i][1], supports[i][2].voters) >>]

\* others.sort_by(|a, b| a.value.cmp(&b.value).reverse()): a stable sort
RECURSIVE InsertByValueDesc(_, _)
InsertByValueDesc(sorted, x) ==
    IF sorted = << >> THEN << x >>
    ELSE IF Head(sorted).value >= x.value
         THEN << Head(sorted) >> \o InsertByValueDesc(Tail(sorted), x)
         ELSE << x >> \o sorted

RECURSIVE SortByValueDesc(_)
SortByValueDesc(s) ==
    IF s = << >> THEN << >>
    ELSE InsertByValueDesc(SortByValueDesc(SubSeq(s, 1, Len(s) - 1)), s[Len(s)])

\* the clipping that truncates without sorting first
ClipExposureUnsorted(exposure) ==
    IF Len(exposure.others) > MaxNominatorRewardedPerValidator
    THEN [exposure EXCEPT !.others =
            SubSeq(exposure.others, 1, MaxNominatorRewardedPerValidator)]
    ELSE exposure

ClipExposure(exposure) ==
    IF Len(exposure.others) > MaxNominatorRewardedPerValidator
    THEN [exposure EXCEPT !.others =
            SubSeq(SortByValueDesc(exposure.others), 1, MaxNominatorRewardedPerValidator)]
    ELSE exposure

RECURSIVE StoreExposures(_, _, _)
StoreExposures(st, exposures, era) ==
    IF exposures = << >> THEN st
    ELSE LET stash == Head(exposures)[1]
             exposure == Head(exposures)[2]
             st1 == [st EXCEPT
                 !.ErasTotalStake = Put(@, era, GetOr(@, era, 0) + exposure.total),
                 !.ErasStakers = Put(@, << era, stash >>, exposure),
                 !.ErasStakersClipped = Put(@, << era, stash >>, ClipExposure(exposure)),
                 !.ErasValidatorPrefs =
                     Put(@, << era, stash >>, GetOr(st.Validators, stash, DefaultPrefs))]
         IN  StoreExposures(st1, Tail(exposures), era)

store_stakers_info(st, exposures, new_planned_era) ==
    LET st0 == [st EXCEPT !.ErasTotalStake = Put(@, new_planned_era, 0)]
    IN  [ st |-> StoreExposures(st0, exposures, new_planned_era),
          ret |-> [i \in 1..Len(exposures) |-> exposures[i][1]] ]

\* clear_era_information that leaves the era's total stake behind
clear_era_information_keeping_stake(st, era_index) ==
    [st EXCEPT
        !.ErasStakers = RemovePrefix(@, era_index),
        !.ErasStakersClipped = RemovePrefix(@, era_index),
        !.ErasValidatorPrefs = RemovePrefix(@, era_index),
        !.ErasValidatorReward = Remove(@, era_index),
        !.ErasRewardPoints = Remove(@, era_index),
        !.ErasStartSessionIndex = Remove(@, era_index)]

clear_era_information(st, era_index) ==
    [st EXCEPT
        !.ErasStakers = RemovePrefix(@, era_index),
        !.ErasStakersClipped = RemovePrefix(@, era_index),
        !.ErasValidatorPrefs = RemovePrefix(@, era_index),
        !.ErasValidatorReward = Remove(@, era_index),
        !.ErasRewardPoints = Remove(@, era_index),
        !.ErasTotalStake = Remove(@, era_index),
        !.ErasStartSessionIndex = Remove(@, era_index)]

\* ------------------------------------------------------------------------
\* EraSessionScheduler
\* ------------------------------------------------------------------------
\* trigger_new_era whose first planned era is 1: unwrap_or(1)
trigger_new_era_from_one(st, start_session_index, exposures) ==
    LET new_planned_era == IF IsSome(st.CurrentEra) THEN Unwrap(st.CurrentEra) + 1 ELSE 1
        st1 == [st EXCEPT
                  !.CurrentEra = Some(new_planned_era),
                  !.ErasStartSessionIndex = Put(@, new_planned_era, start_session_index)]
        st2 == IF new_planned_era >= st.HistoryDepth + 1
               THEN clear_era_information(st1, new_planned_era - (st.HistoryDepth + 1))
               ELSE st1
    IN  store_stakers_info(st2, exposures, new_planned_era)

trigger_new_era(st, start_session_index, exposures) ==
    LET new_planned_era == IF IsSome(st.CurrentEra) THEN Unwrap(st.CurrentEra) + 1 ELSE 0
        st1 == [st EXCEPT
                  !.CurrentEra = Some(new_planned_era),
                  !.ErasStartSessionIndex = Put(@, new_planned_era, start_session_index)]
        st2 == IF new_planned_era >= st.HistoryDepth + 1
               THEN clear_era_information(st1, new_planned_era - (st.HistoryDepth + 1))
               ELSE st1
    IN  store_stakers_info(st2, exposures, new_planned_era)

\* try_trigger_new_era that plans the era before it looks at the election's answer
try_trigger_new_era_planning_first(st, start_session_index, is_genesis, election) ==
    LET planned_era == IF IsSome(st.CurrentEra) THEN Unwrap(st.CurrentEra) + 1 ELSE 0
        st0 == [st EXCEPT
                  !.CurrentEra = Some(planned_era),
                  !.ErasStartSessionIndex = Put(@, planned_era, start_session_index)]
    IN  IF ~election.ok THEN [st |-> st0, ret |-> None]
        ELSE LET exposures == collect_exposures(election.supports)
             IN  IF Len(exposures) < Max(MinimumValidatorCount, 1)
                 THEN [st |-> st0, ret |-> None]
                 ELSE LET r == trigger_new_era(st, start_session_index, exposures)
                      IN  [st |-> r.st, ret |-> Some(r.ret)]

\* election: the provider's answer, [ok |-> FALSE] or [ok |-> TRUE, supports |-> ...]
\* try_trigger_new_era without the check of the number of exposures
try_trigger_new_era_any_count(st, start_session_index, is_genesis, election) ==
    IF ~election.ok THEN [st |-> st, ret |-> None]
    ELSE LET exposures == collect_exposures(election.supports)
             r == trigger_new_era(st, start_session_index, exposures)
         IN  [st |-> r.st, ret |-> Some(r.ret)]

\* try_trigger_new_era that tolerates a short result in a genesis call only
try_trigger_new_era_genesis_only(st, start_session_index, is_genesis, election) ==
    IF ~election.ok THEN [st |-> st, ret |-> None]
    ELSE LET exposures == collect_exposures(election.supports)
         IN  IF Len(exposures) < Max(MinimumValidatorCount, 1)
             THEN IF st.CurrentEra = None /\ is_genesis
                  THEN [ st |-> [st EXCEPT
                                   !.CurrentEra = Some(0),
                                   !.ErasStartSessionIndex = Put(@, 0, start_session_index)],
                         ret |-> None ]
                  ELSE [st |-> st, ret |-> None]
             ELSE LET r == trigger_new_era(st, start_session_index, exposures)
                  IN  [st |-> r.st, ret |-> Some(r.ret)]

try_trigger_new_era(st, start_session_index, is_genesis, election) ==
    IF ~election.ok THEN [st |-> st, ret |-> None]
    ELSE LET exposures == collect_exposures(election.supports)
         IN  IF Len(exposures) < Max(MinimumValidatorCount, 1)
             THEN IF st.CurrentEra = None
                  THEN [ st |-> [st EXCEPT
                                   !.CurrentEra = Some(0),
                                   !.ErasStartSessionIndex = Put(@, 0, start_session_index)],
                         ret |-> None ]
                  ELSE [st |-> st, ret |-> None]
             ELSE LET r == trigger_new_era(st, start_session_index, exposures)
                  IN  [st |-> r.st, ret |-> Some(r.ret)]

\* the match on ForceEra with era_length > SessionsPerEra in the NotForcing arm
era_trigger_due_late(st, session_index) ==
    LET current_era == Unwrap(st.CurrentEra)
        current_era_start_session_index ==
            UnwrapOr(Get(st.ErasStartSessionIndex, current_era), 0)
        era_length == SaturatingSub(session_index, current_era_start_session_index)
    IN  CASE st.ForceEra = "ForceNew" -> TRUE
          [] st.ForceEra = "ForceAlways" -> TRUE
          [] st.ForceEra = "NotForcing" -> era_length > SessionsPerEra
          [] OTHER -> FALSE

\* the match on ForceEra with the NotForcing arm one session early
era_trigger_due_early(st, session_index) ==
    LET current_era == Unwrap(st.CurrentEra)
        current_era_start_session_index ==
            UnwrapOr(Get(st.ErasStartSessionIndex, current_era), 0)
        era_length == SaturatingSub(session_index, current_era_start_session_index)
    IN  CASE st.ForceEra = "ForceNew" -> TRUE
          [] st.ForceEra = "ForceAlways" -> TRUE
          [] st.ForceEra = "NotForcing" -> era_length + 1 >= SessionsPerEra
          [] OTHER -> FALSE

\* the match on ForceEra in new_session: is an election attempted at this session
era_trigger_due(st, session_index) ==
    LET current_era == Unwrap(st.CurrentEra)
        current_era_start_session_index ==
            UnwrapOr(Get(st.ErasStartSessionIndex, current_era), 0)
        era_length == SaturatingSub(session_index, current_era_start_session_index)
    IN  CASE st.ForceEra = "ForceNew" -> TRUE
          [] st.ForceEra = "ForceAlways" -> TRUE
          [] st.ForceEra = "NotForcing" -> era_length >= SessionsPerEra
          [] OTHER -> FALSE

\* new_session in which a failed attempt gives up ForceNew and restarts the
\* session count of the current era
new_session_restarting_on_failure(st, session_index, is_genesis, election) ==
    IF IsSome(st.CurrentEra)
    THEN IF ~era_trigger_due(st, session_index)
         THEN [st |-> st, ret |-> None]
         ELSE LET r == try_trigger_new_era(st, session_index, is_genesis, election)
              IN  IF IsSome(r.ret)
                  THEN IF r.st.ForceEra = "ForceNew"
                       THEN [st |-> [r.st EXCEPT !.ForceEra = "NotForcing"], ret |-> r.ret]
                       ELSE r
                  ELSE [ st |-> [r.st EXCEPT
                                   !.ForceEra = IF @ = "ForceNew" THEN "NotForcing" ELSE @,
                                   !.ErasStartSessionIndex =
                                       Put(@, Unwrap(st.CurrentEra), session_index)],
                         ret |-> None ]
    ELSE try_trigger_new_era(st, session_index, is_genesis, election)

\* new_session that resets every forcing mode after a successful trigger
new_session_resetting_any(st, session_index, is_genesis, election) ==
    IF IsSome(st.CurrentEra)
    THEN IF ~era_trigger_due(st, session_index)
         THEN [st |-> st, ret |-> None]
         ELSE LET r == try_trigger_new_era(st, session_index, is_genesis, election)
              IN  IF IsSome(r.ret)
                  THEN [st |-> [r.st EXCEPT !.ForceEra = "NotForcing"], ret |-> r.ret]
                  ELSE r
    ELSE try_trigger_new_era(st, session_index, is_genesis, election)

new_session(st, session_index, is_genesis, election) ==
    IF IsSome(st.CurrentEra)
    THEN IF ~era_trigger_due(st, session_index)
         THEN [st |-> st, ret |-> None]
         ELSE LET r == try_trigger_new_era(st, session_index, is_genesis, election)
              IN  IF IsSome(r.ret) /\ r.st.ForceEra = "ForceNew"
                  THEN [st |-> [r.st EXCEPT !.ForceEra = "NotForcing"], ret |-> r.ret]
                  ELSE r
    ELSE try_trigger_new_era(st, session_index, is_genesis, election)

\* slashing::apply_slash: the slash takes effect; recorded with the active era
apply_slash(st, slash) ==
    [st EXCEPT !.applied = Append(@, [slash |-> slash, at |-> Unwrap(st.ActiveEra).index])]

RECURSIVE ApplyAll(_, _)
ApplyAll(st, slashes) ==
    IF slashes = << >> THEN st
    ELSE ApplyAll(apply_slash(st, Head(slashes)), Tail(slashes))

\* ApplyEras that reads the queued slashes and leaves them in the queue
RECURSIVE ApplyErasKeepingQueue(_, _, _)
ApplyErasKeepingQueue(st, era, keep_from) ==
    IF era >= keep_from THEN st
    ELSE ApplyErasKeepingQueue(ApplyAll(st, GetOr(st.UnappliedSlashes, era, << >>)),
                               era + 1, keep_from)

RECURSIVE ApplyEras(_, _, _)
ApplyEras(st, era, keep_from) ==
    IF era >= keep_from THEN st
    ELSE LET era_slashes == GetOr(st.UnappliedSlashes, era, << >>)
             st1 == [st EXCEPT !.UnappliedSlashes = Remove(@, era)]
         IN  ApplyEras(ApplyAll(st1, era_slashes), era + 1, keep_from)

\* apply_unapplied_slashes that moves the watermark up to the active era
apply_unapplied_slashes_to_active(st, active_era) ==
    IF IsSome(st.EarliestUnappliedSlash)
    THEN LET earliest == Unwrap(st.EarliestUnappliedSlash)
             keep_from == SaturatingSub(active_era, SlashDeferDuration)
             st1 == ApplyEras(st, earliest, keep_from)
         IN  [st1 EXCEPT !.EarliestUnappliedSlash = Some(Max(earliest, active_era))]
    ELSE st

apply_unapplied_slashes(st, active_era) ==
    IF IsSome(st.EarliestUnappliedSlash)
    THEN LET earliest == Unwrap(st.EarliestUnappliedSlash)
             keep_from == SaturatingSub(active_era, SlashDeferDuration)
             st1 == ApplyEras(st, earliest, keep_from)
         IN  [st1 EXCEPT !.EarliestUnappliedSlash = Some(Max(earliest, keep_from))]
    ELSE st

\* bonded.iter().take_while(|&&(era_idx, _)| era_idx < first_kept).count()
RECURSIVE TakeWhileOlder(_, _)
TakeWhileOlder(bonded, first_kept) ==
    IF bonded = << >> \/ ~(Head(bonded)[1] < first_kept) THEN 0
    ELSE 1 + TakeWhileOlder(Tail(bonded), first_kept)

\* slashing::clear_era_metadata for each era drained from BondedEras
clear_era_metadata(st, pruned_eras) ==
    [st EXCEPT !.ValidatorSlashInEra =
        [x \in {y \in DOMAIN @ : y[1] \notin pruned_eras} |-> @[x]]]

\* start_era that prunes one era more than the bonding duration allows
start_era_short_window(st, start_session) ==
    LET new_index == IF IsSome(st.ActiveEra) THEN Unwrap(st.ActiveEra).index + 1 ELSE 0
        pushed == Append(st.BondedEras, << new_index, start_session >>)
        n_to_prune == IF new_index > BondingDuration
                      THEN TakeWhileOlder(pushed, new_index - BondingDuration + 1)
                      ELSE 0
        st1 == [st EXCEPT
                  !.ActiveEra = Some([index |-> new_index, start |-> None]),
                  !.BondedEras = SubSeq(pushed, n_to_prune + 1, Len(pushed))]
        st2 == clear_era_metadata(st1, {pushed[i][1] : i \in 1..n_to_prune})
    IN  apply_unapplied_slashes(st2, new_index)

start_era(st, start_session) ==
    LET new_index == IF IsSome(st.ActiveEra) THEN Unwrap(st.ActiveEra).index + 1 ELSE 0
        pushed == Append(st.BondedEras, << new_index, start_session >>)
        n_to_prune == IF new_index > BondingDuration
                      THEN TakeWhileOlder(pushed, new_index - BondingDuration)
                      ELSE 0
        st1 == [st EXCEPT
                  !.ActiveEra = Some([index |-> new_index, start |-> None]),
                  !.BondedEras = SubSeq(pushed, n_to_prune + 1, Len(pushed))]
        st2 == clear_era_metadata(st1, {pushed[i][1] : i \in 1..n_to_prune})
    IN  apply_unapplied_slashes(st2, new_index)

\* start_session that starts the next era whether or not it was planned
start_session_unplanned(st, start_session_index) ==
    LET next_active_era == IF IsSome(st.ActiveEra) THEN Unwrap(st.ActiveEra).index + 1 ELSE 0
        next_start == Get(st.ErasStartSessionIndex, next_active_era)
    IN  IF next_start = None \/ Unwrap(next_start) <= start_session_index
        THEN start_era(st, start_session_index)
        ELSE st

\* start_session without the arm for a skipped session
start_session_exact(st, start_session_index) ==
    LET next_active_era == IF IsSome(st.ActiveEra) THEN Unwrap(st.ActiveEra).index + 1 ELSE 0
        next_start == Get(st.ErasStartSessionIndex, next_active_era)
    IN  IF IsSome(next_start) /\ Unwrap(next_start) = start_session_index
        THEN start_era(st, start_session_index)
        ELSE st

start_session(st, start_session_index) ==
    LET next_active_era == IF IsSome(st.ActiveEra) THEN Unwrap(st.ActiveEra).index + 1 ELSE 0
        next_start == Get(st.ErasStartSessionIndex, next_active_era)
    IN  IF IsSome(next_start) /\ Unwrap(next_start) <= start_session_index
        THEN start_era(st, start_session_index)
        ELSE st

\* end_era that also acts on an era whose start has not been set
end_era_unstarted(st, active_era, session_index, validator_payout) ==
    [st EXCEPT
        !.ErasValidatorReward = Put(@, active_era.index, validator_payout),
        !.OffendingValidators = {}]

\* end_era that books the payout under the era before the active one
end_era_booking_previous(st, active_era, session_index, validator_payout) ==
    IF IsSome(active_era.start)
    THEN [st EXCEPT
            !.ErasValidatorReward =
                Put(@, SaturatingSub(active_era.index, 1), validator_payout),
            !.OffendingValidators = {}]
    ELSE st

\* validator_payout: what T::EraPayout::era_payout answers for the era
end_era(st, active_era, session_index, validator_payout) ==
    IF IsSome(active_era.start)
    THEN [st EXCEPT
            !.ErasValidatorReward = Put(@, active_era.index, validator_payout),
            !.OffendingValidators = {}]
    ELSE st

\* end_session that ends the active era at the end of every session
end_session_every_session(st, session_index, validator_payout) ==
    IF IsSome(st.ActiveEra)
    THEN end_era(st, Unwrap(st.ActiveEra), session_index, validator_payout)
    ELSE st

end_session(st, session_index, validator_payout) ==
    IF IsSome(st.ActiveEra)
    THEN LET active_era == Unwrap(st.ActiveEra)
             next_start == Get(st.ErasStartSessionIndex, active_era.index + 1)
         IN  IF IsSome(next_start) /\ Unwrap(next_start) = session_index + 1
             THEN end_era(st, active_era, session_index, validator_payout)
             ELSE st
    ELSE st

\* Hooks::on_finalize: the active era's start is set in the block it began
on_finalize(st) ==
    IF IsSome(st.ActiveEra) /\ Unwrap(st.ActiveEra).start = None
    THEN [st EXCEPT !.ActiveEra = Some([Unwrap(@) EXCEPT !.start = Some("now")])]
    ELSE st

\* ensure_new_era and the force_* calls
\* ensure_new_era that leaves ForceNone in place
ensure_new_era_unless_none(st) ==
    IF st.ForceEra \in {"ForceAlways", "ForceNew", "ForceNone"} THEN st
    ELSE [st EXCEPT !.ForceEra = "ForceNew"]

ensure_new_era(st) ==
    IF st.ForceEra \in {"ForceAlways", "ForceNew"} THEN st
    ELSE [st EXCEPT !.ForceEra = "ForceNew"]

\* ------------------------------------------------------------------------
\* SlashingEngine
\* ------------------------------------------------------------------------
\* slashing::compute_slash for one offender: no slash for a zero fraction,
\* otherwise the slash of `stash` for `slash_era`; the offender is marked and
\* the slash is noted in the era's slashing metadata
compute_slash(st, stash, fraction, slash_era) ==
    IF fraction = 0 THEN [st |-> st, ret |-> None]
    ELSE [ st |-> [st EXCEPT
                      !.OffendingValidators = @ \cup {stash},
                      !.ValidatorSlashInEra = Put(@, << slash_era, stash >>, fraction)],
           ret |-> Some([validator |-> stash, era |-> slash_era, reporters |-> << >>]) ]

\* the bonded-era lookup without the rev(): the oldest era that began by then
RECURSIVE FirstBondedBefore(_, _)
FirstBondedBefore(eras, slash_session) ==
    IF eras = << >> THEN None
    ELSE IF Head(eras)[2] <= slash_session THEN Some(Head(eras)[1])
         ELSE FirstBondedBefore(Tail(eras), slash_session)

\* the lookup that falls back to the oldest bonded era
LastBondedOrOldest(eras, slash_session) ==
    IF eras = << >> THEN None
    ELSE LET found == {i \in 1..Len(eras) : eras[i][2] <= slash_session}
         IN  IF found = {} THEN Some(eras[1][1])
             ELSE Some(eras[CHOOSE i \in found : \A j \in found : j <= i][1])

\* eras.iter().rev().filter(|&&(_, ref sesh)| sesh <= &slash_session).next()
RECURSIVE LastBondedBefore(_, _)
LastBondedBefore(eras, slash_session) ==
    IF eras = << >> THEN None
    ELSE IF eras[Len(eras)][2] <= slash_session THEN Some(eras[Len(eras)][1])
         ELSE LastBondedBefore(SubSeq(eras, 1, Len(eras) - 1), slash_session)

\* the era an offence of session slash_session is attributed to
SlashEraOf(st, active_era, slash_session) ==
    LET active_era_start_session_index ==
            UnwrapOr(Get(st.ErasStartSessionIndex, active_era), 0)
    IN  IF slash_session >= active_era_start_session_index
        THEN Some(active_era)
        ELSE LastBondedBefore(st.BondedEras, slash_session)

\* queueing under the era the offence was attributed to
QueueKeyOffenceEra(active_era, slash_era) == slash_era

\* the era key a deferred slash is queued under
QueueKey(active_era, slash_era) == active_era

\* offenders: a sequence of [stash, fraction, reporters]
RECURSIVE SlashOffenders(_, _, _, _)
SlashOffenders(st, offenders, active_era, slash_era) ==
    IF offenders = << >> THEN st
    ELSE LET details == Head(offenders)
             rest == Tail(offenders)
         IN  IF details.stash \in Invulnerables
             THEN SlashOffenders(st, rest, active_era, slash_era)
             ELSE LET c == compute_slash(st, details.stash, details.fraction, slash_era)
                  IN  IF c.ret = None
                      THEN SlashOffenders(c.st, rest, active_era, slash_era)
                      ELSE LET unapplied ==
                                   [Unwrap(c.ret) EXCEPT !.reporters = details.reporters]
                               key == QueueKey(active_era, slash_era)
                               st1 == IF SlashDeferDuration = 0
                                      THEN apply_slash(c.st, unapplied)
                                      ELSE [c.st EXCEPT !.UnappliedSlashes =
                                              Put(@, key, Append(GetOr(@, key, << >>), unapplied))]
                           IN  SlashOffenders(st1, rest, active_era, slash_era)

\* on_offence that moves the watermark to the active era on every report
on_offence_moving_watermark(st, offenders, slash_session) ==
    IF st.ActiveEra = None THEN [st |-> st, ret |-> None]
    ELSE LET active_era == Unwrap(st.ActiveEra).index
             slash_era == SlashEraOf(st, active_era, slash_session)
         IN  IF slash_era = None THEN [st |-> st, ret |-> None]
             ELSE LET st1 == [st EXCEPT !.EarliestUnappliedSlash = Some(active_era)]
                  IN  [ st |-> SlashOffenders(st1, offenders, active_era, Unwrap(slash_era)),
                        ret |-> slash_era ]

\* ret: the era the offence was attributed to (None: the report was dropped)
on_offence(st, offenders, slash_session) ==
    IF st.ActiveEra = None THEN [st |-> st, ret |-> None]
    ELSE LET active_era == Unwrap(st.ActiveEra).index
             slash_era == SlashEraOf(st, active_era, slash_session)
         IN  IF slash_era = None THEN [st |-> st, ret |-> None]
             ELSE LET st1 == IF st.EarliestUnappliedSlash = None
                             THEN [st EXCEPT !.EarliestUnappliedSlash = Some(active_era)]
                             ELSE st
                  IN  [ st |-> SlashOffenders(st1, offenders, active_era, Unwrap(slash_era)),
                        ret |-> slash_era ]

\* ------------------------------------------------------------------------
\* RewardDistributor
\* ------------------------------------------------------------------------
\* Perbill: parts per billion, rounded down
ACCURACY == 1000000000

\* Perbill::from_rational(p, q): floor(min(p, q) * ACCURACY / max(q, 1)), by long
\* division in base 1000 (every intermediate value stays below 2^31)
PerbillFromRational(p, q) ==
    LET qq == Max(q, 1)
        pp == Min(p, qq)
        d1 == (pp * 1000) \div qq
        r1 == (pp * 1000) % qq
        d2 == d1 * 1000 + ((r1 * 1000) \div qq)
        r2 == (r1 * 1000) % qq
    IN  d2 * 1000 + ((r2 * 1000) \div qq)

\* Perbill * balance: floor(part * x / ACCURACY), for x up to 1000
PerbillMul(part, x) ==
    LET ph == part \div 1000000
        pl == part % 1000000
        a == ph * x
    IN  (a \div 1000) + (((a % 1000) * 1000000 + pl * x) \div ACCURACY)

\* Currency::deposit_creating
deposit_creating(st, who, amount) ==
    [ st |-> [st EXCEPT !.Balances = Put(@, who, GetOr(@, who, 0) + amount)],
      ret |-> Some(amount) ]

\* Currency::deposit_into_existing: fails for the accounts in `dead`
deposit_into_existing(st, who, amount, dead) ==
    IF who \in dead THEN [st |-> st, ret |-> None]
    ELSE deposit_creating(st, who, amount)

update_ledger(st, controller, ledger) ==
    [st EXCEPT !.Locks = Put(@, ledger.stash, ledger.total),
               !.Ledger = Put(@, controller, ledger)]

\* the ledger amounts a Staked payout of `amount` writes, given the deposit's result
StakedLedger(l, amount, deposited) ==
    [l EXCEPT !.active = @ + amount, !.total = @ + amount]

make_payout(st, stash, amount, dead) ==
    LET dest == GetOr(st.Payee, stash, "Staked")
        controller == Get(st.Bonded, stash)
    IN  CASE dest = "Controller" ->
                IF IsSome(controller)
                THEN deposit_creating(st, Unwrap(controller), amount)
                ELSE [st |-> st, ret |-> None]
          [] dest = "Stash" -> deposit_into_existing(st, stash, amount, dead)
          [] dest = "Staked" ->
                IF IsSome(controller) /\ IsSome(Get(st.Ledger, Unwrap(controller)))
                THEN LET l == st.Ledger[Unwrap(controller)]
                         r == deposit_into_existing(st, stash, amount, dead)
                     IN  [ st |-> update_ledger(r.st, Unwrap(controller),
                                     StakedLedger(l, amount, IsSome(r.ret))),
                           ret |-> r.ret ]
                ELSE [st |-> st, ret |-> None]
          [] dest = "None" -> [st |-> st, ret |-> None]
          [] OTHER -> deposit_creating(st, dest[2], amount)

\* claimed_rewards.binary_search(&era): <<TRUE, _>> found, <<FALSE, pos>> not found
RECURSIVE BinarySearch(_, _, _, _)
BinarySearch(s, lo, hi, x) ==
    IF lo >= hi THEN << FALSE, lo >>
    ELSE LET mid == lo + ((hi - lo) \div 2)
         IN  IF s[mid + 1] = x THEN << TRUE, mid >>
             ELSE IF s[mid + 1] < x THEN BinarySearch(s, mid + 1, hi, x)
                  ELSE BinarySearch(s, lo, mid, x)

InsertAt(s, pos, x) == SubSeq(s, 1, pos) \o << x >> \o SubSeq(s, pos + 1, Len(s))

\* the retain that also drops the oldest era of the history window
RetainClaimedStrictly(claimed, current_era, history_depth) ==
    SelectSeq(claimed, LAMBDA x : x > SaturatingSub(current_era, history_depth))

\* ledger.claimed_rewards.retain(|&x| x >= current_era.saturating_sub(history_depth))
RetainClaimed(claimed, current_era, history_depth) ==
    SelectSeq(claimed, LAMBDA x : x >= SaturatingSub(current_era, history_depth))

\* the leftover that forgets to take the commission out
LeftoverWithCommission(validator_total_payout, validator_commission_payout) ==
    validator_total_payout

\* the part of the validator's payout that is split by exposure
LeftoverPayout(validator_total_payout, validator_commission_payout) ==
    validator_total_payout - validator_commission_payout

RECURSIVE PayNominators(_, _, _, _, _)
PayNominators(st, others, total, leftover, dead) ==
    IF others = << >> THEN [st |-> st, rewarded |-> << >>]
    ELSE LET nominator == Head(others)
             nominator_reward == PerbillMul(PerbillFromRational(nominator.value, total), leftover)
             r == make_payout(st, nominator.who, nominator_reward, dead)
             rest == PayNominators(r.st, Tail(others), total, leftover, dead)
         IN  [ st |-> rest.st,
               rewarded |-> (IF IsSome(r.ret) THEN << << nominator.who, Unwrap(r.ret) >> >>
                             ELSE << >>) \o rest.rewarded ]

\* PayOut that hands the whole era payout to the claiming validator
PayOutWholeEra(st, validator_stash, era, era_payout, ledger, exposure, dead) ==
    LET era_reward_points == GetOr(st.ErasRewardPoints, era, [total |-> 0, individual |-> EmptyMap])
        validator_reward_points == GetOr(era_reward_points.individual, ledger.stash, 0)
    IN  IF validator_reward_points = 0 THEN [st |-> st, ret |-> "Ok", rewarded |-> << >>]
        ELSE LET validator_prefs == GetOr(st.ErasValidatorPrefs, << era, validator_stash >>, DefaultPrefs)
                 validator_commission_payout == PerbillMul(validator_prefs.commission, era_payout)
                 validator_leftover_payout == era_payout - validator_commission_payout
                 validator_staking_payout ==
                     PerbillMul(PerbillFromRational(exposure.own, exposure.total),
                                validator_leftover_payout)
                 v == make_payout(st, ledger.stash,
                                  validator_staking_payout + validator_commission_payout, dead)
                 n == PayNominators(v.st, exposure.others, exposure.total,
                                    validator_leftover_payout, dead)
             IN  [ st |-> n.st, ret |-> "Ok",
                   rewarded |-> (IF IsSome(v.ret) THEN << << ledger.stash, Unwrap(v.ret) >> >>
                                 ELSE << >>) \o n.rewarded ]

\* the payout once the claim is recorded: `rewarded` lists the Rewarded events
PayOut(st, validator_stash, era, era_payout, ledger, exposure, dead) ==
    LET era_reward_points == GetOr(st.ErasRewardPoints, era, [total |-> 0, individual |-> EmptyMap])
        total_reward_points == era_reward_points.total
        validator_reward_points == GetOr(era_reward_points.individual, ledger.stash, 0)
    IN  IF validator_reward_points = 0 THEN [st |-> st, ret |-> "Ok", rewarded |-> << >>]
        ELSE LET validator_total_payout ==
                     PerbillMul(PerbillFromRational(validator_reward_points, total_reward_points),
                                era_payout)
                 validator_prefs == GetOr(st.ErasValidatorPrefs, << era, validator_stash >>, DefaultPrefs)
                 validator_commission_payout ==
                     PerbillMul(validator_prefs.commission, validator_total_payout)
                 validator_leftover_payout ==
                     LeftoverPayout(validator_total_payout, validator_commission_payout)
                 validator_staking_payout ==
                     PerbillMul(PerbillFromRational(exposure.own, exposure.total),
                                validator_leftover_payout)
                 v == make_payout(st, ledger.stash,
                                  validator_staking_payout + validator_commission_payout, dead)
                 n == PayNominators(v.st, exposure.others, exposure.total,
                                    validator_leftover_payout, dead)
             IN  [ st |-> n.st, ret |-> "Ok",
                   rewarded |-> (IF IsSome(v.ret) THEN << << ledger.stash, Unwrap(v.ret) >> >>
                                 ELSE << >>) \o n.rewarded ]

\* do_payout_stakers that looks the era's payout up after recording the claim
do_payout_stakers_recording_first(st, validator_stash, era, dead) ==
    LET Err(e) == [st |-> st, ret |-> e, rewarded |-> << >>]
    IN
    IF st.CurrentEra = None THEN Err("InvalidEraToReward")
    ELSE LET current_era == Unwrap(st.CurrentEra) IN
    IF ~(era <= current_era /\ era >= SaturatingSub(current_era, st.HistoryDepth))
    THEN Err("InvalidEraToReward")
    ELSE IF Get(st.Bonded, validator_stash) = None THEN Err("NotStash")
    ELSE LET controller == st.Bonded[validator_stash] IN
    IF Get(st.Ledger, controller) = None THEN Err("NotController")
    ELSE LET ledger0 == st.Ledger[controller]
             retained == RetainClaimed(ledger0.claimed_rewards, current_era, st.HistoryDepth)
             found == BinarySearch(retained, 0, Len(retained), era)
         IN
    IF found[1] THEN Err("AlreadyClaimed")
    ELSE LET ledger == [ledger0 EXCEPT !.claimed_rewards = InsertAt(retained, found[2], era)]
             exposure == GetOr(st.ErasStakersClipped, << era, ledger.stash >>, DefaultExposure)
             st1 == [st EXCEPT !.Ledger = Put(@, controller, ledger)]
         IN  IF Get(st.ErasValidatorReward, era) = None
             THEN [st |-> st1, ret |-> "InvalidEraToReward", rewarded |-> << >>]
             ELSE PayOut(st1, validator_stash, era, st.ErasValidatorReward[era], ledger,
                         exposure, dead)

do_payout_stakers(st, validator_stash, era, dead) ==
    LET Err(e) == [st |-> st, ret |-> e, rewarded |-> << >>]
    IN
    IF st.CurrentEra = None THEN Err("InvalidEraToReward")
    ELSE LET current_era == Unwrap(st.CurrentEra) IN
    IF ~(era <= current_era /\ era >= SaturatingSub(current_era, st.HistoryDepth))
    THEN Err("InvalidEraToReward")
    ELSE IF Get(st.ErasValidatorReward, era) = None THEN Err("InvalidEraToReward")
    ELSE IF Get(st.Bonded, validator_stash) = None THEN Err("NotStash")
    ELSE LET controller == st.Bonded[validator_stash] IN
    IF Get(st.Ledger, controller) = None THEN Err("NotController")
    ELSE LET ledger0 == st.Ledger[controller]
             retained == RetainClaimed(ledger0.claimed_rewards, current_era, st.HistoryDepth)
             found == BinarySearch(retained, 0, Len(retained), era)
         IN
    IF found[1] THEN Err("AlreadyClaimed")
    ELSE LET ledger == [ledger0 EXCEPT !.claimed_rewards = InsertAt(retained, found[2], era)]
             exposure == GetOr(st.ErasStakersClipped, << era, ledger.stash >>, DefaultExposure)
             st1 == [st EXCEPT !.Ledger = Put(@, controller, ledger)]
         IN  PayOut(st1, validator_stash, era, st.ErasValidatorReward[era], ledger, exposure, dead)

\* reward_by_ids: validators_points is a sequence of <<validator, points>>
RECURSIVE AddPoints(_, _)
AddPoints(era_rewards, validators_points) ==
    IF validators_points = << >> THEN era_rewards
    ELSE LET validator == Head(validators_points)[1]
             points == Head(validators_points)[2]
         IN  AddPoints([ total |-> era_rewards.total + points,
                         individual |-> Put(era_rewards.individual, validator,
                                            GetOr(era_rewards.individual, validator, 0) + points) ],
                       Tail(validators_points))

reward_by_ids(st, validators_points) ==
    IF IsSome(st.ActiveEra)
    THEN LET index == Unwrap(st.ActiveEra).index
         IN  [st EXCEPT !.ErasRewardPoints =
                Put(@, index, AddPoints(GetOr(@, index, [total |-> 0, individual |-> EmptyMap]),
                                        validators_points))]
    ELSE st

\* ------------------------------------------------------------------------
\* SnapshotBounds (election-provider-support)
\* ------------------------------------------------------------------------
\* a bound is [size |-> Option, count |-> Option]
size_bound(bounds) == bounds.size
count_bound(bounds) == bounds.count
is_unbounded(bounds) == bounds.size = None /\ bounds.count = None

size_exhausted(bounds, given_size) ==
    IF bounds.size = None THEN FALSE ELSE given_size > Unwrap(bounds.size)

count_exhausted(bounds, given_count) ==
    IF bounds.count = None THEN FALSE ELSE given_count > Unwrap(bounds.count)

\* exhausts_size_count_non_zero that exempts only size 1 with count 0
exhausts_size_count_both_empty(bounds, given_size, given_count) ==
    IF given_size = 1 /\ given_count = 0 THEN FALSE
    ELSE size_exhausted(bounds, given_size) \/ count_exhausted(bounds, given_count)

exhausts_size_count_non_zero(bounds, given_size, given_count) ==
    IF given_size = 1 \/ given_count = 0 THEN FALSE
    ELSE size_exhausted(bounds, given_size) \/ count_exhausted(bounds, given_count)

\* ------------------------------------------------------------------------
\* StaticSizeTracker
\* ------------------------------------------------------------------------
\* size_of::<AccountId>() and size_of::<VoteWeight>() for AccountId = u64
AccountIdSize == 8
VoteWeightSize == 8

\* length_prefix whose first arm is 0..=64
length_prefix_wide_first_arm(length) ==
    IF length <= 64 THEN 1
    ELSE IF length <= 16383 THEN 2
    ELSE IF length <= 1073741823 THEN 4
    ELSE 5

length_prefix(length) ==
    IF length <= 63 THEN 1
    ELSE IF length <= 16383 THEN 2
    ELSE IF length <= 1073741823 THEN 4
    ELSE 5

\* voter_size that leaves the vote weight out
voter_size_no_weight(votes) ==
    length_prefix(votes) + votes * AccountIdSize + AccountIdSize

voter_size(votes) ==
    length_prefix(votes) + votes * AccountIdSize + VoteWeightSize + AccountIdSize

\* final_byte_size_of that leaves the outer length prefix out
final_byte_size_of_inner(tracker, length) == tracker

\* the tracker is its `size` field
register_voter(tracker, votes) == tracker + voter_size(votes)
final_byte_size_of(tracker, length) == tracker + length_prefix(length)

\* ------------------------------------------------------------------------
\* SnapshotBuilder
\* ------------------------------------------------------------------------
slashable_balance_of(st, stash) ==
    IF IsSome(Get(st.Bonded, stash)) /\ IsSome(Get(st.Ledger, st.Bonded[stash]))
    THEN st.Ledger[st.Bonded[stash]].active
    ELSE 0

weight_of(st, who) == to_vote(slashable_balance_of(st, who))

add_voter(bounds, tracker, votes) ==
    IF IsSome(size_bound(bounds)) THEN register_voter(tracker, votes) ELSE tracker

\* next_will_exhaust that stops one voter short of the count bound
next_will_exhaust_early(bounds, tracker, voters_len) ==
    CASE IsSome(size_bound(bounds)) /\ IsSome(count_bound(bounds)) ->
            \/ final_byte_size_of(tracker, voters_len + 1) > Unwrap(size_bound(bounds))
            \/ voters_len + 1 >= Unwrap(count_bound(bounds))
      [] IsSome(size_bound(bounds)) ->
            final_byte_size_of(tracker, voters_len + 1) > Unwrap(size_bound(bounds))
      [] IsSome(count_bound(bounds)) -> voters_len + 1 >= Unwrap(count_bound(bounds))
      [] OTHER -> FALSE

next_will_exhaust(bounds, tracker, voters_len) ==
    CASE IsSome(size_bound(bounds)) /\ IsSome(count_bound(bounds)) ->
            \/ final_byte_size_of(tracker, voters_len + 1) > Unwrap(size_bound(bounds))
            \/ voters_len + 1 > Unwrap(count_bound(bounds))
      [] IsSome(size_bound(bounds)) ->
            final_byte_size_of(tracker, voters_len + 1) > Unwrap(size_bound(bounds))
      [] IsSome(count_bound(bounds)) -> voters_len + 1 > Unwrap(count_bound(bounds))
      [] OTHER -> FALSE

\* the retain that keeps every target
RetainAllTargets(st, targets, submitted_in) == targets

\* targets.retain(|stash| spans.get(stash).map_or(true, |s| submitted_in >= s.last_nonzero_slash()))
RetainTargets(st, targets, submitted_in) ==
    SelectSeq(targets, LAMBDA stash :
        IF stash \in DOMAIN st.SlashingSpans
        THEN submitted_in >= st.SlashingSpans[stash].last_nonzero_slash
        ELSE TRUE)

\* the loop over <Validators<T>>::iter(), in the order the map yields them
RECURSIVE TakeValidators(_, _, _, _, _)
TakeValidators(st, bounds, order, tracker, voters) ==
    IF order = << >> THEN [tracker |-> tracker, voters |-> voters]
    ELSE LET validator == Head(order)
             self_vote == << validator, weight_of(st, validator), << validator >> >>
             t1 == add_voter(bounds, tracker, 1)
         IN  IF next_will_exhaust(bounds, t1, Len(voters))
             THEN [tracker |-> t1, voters |-> voters]
             ELSE TakeValidators(st, bounds, Tail(order), t1, Append(voters, self_vote))

\* the loop that passes over a nominator that does not fit and goes on
RECURSIVE TakeNominatorsSkipping(_, _, _, _, _)
TakeNominatorsSkipping(st, bounds, order, tracker, voters) ==
    IF order = << >> THEN voters
    ELSE LET nominator == Head(order)
         IN  IF nominator \in DOMAIN st.Nominators
             THEN LET n == st.Nominators[nominator]
                      t1 == add_voter(bounds, tracker, Len(n.targets))
                      targets == RetainTargets(st, n.targets, n.submitted_in)
                  IN  IF next_will_exhaust(bounds, t1, Len(voters))
                      THEN TakeNominatorsSkipping(st, bounds, Tail(order), tracker, voters)
                      ELSE TakeNominatorsSkipping(st, bounds, Tail(order), t1,
                              IF Len(targets) # 0
                              THEN Append(voters, << nominator, weight_of(st, nominator), targets >>)
                              ELSE voters)
             ELSE TakeNominatorsSkipping(st, bounds, Tail(order), tracker, voters)

\* the loop over T::SortedListProvider::iter()
RECURSIVE TakeNominators(_, _, _, _, _)
TakeNominators(st, bounds, order, tracker, voters) ==
    IF order = << >> THEN voters
    ELSE LET nominator == Head(order)
         IN  IF nominator \in DOMAIN st.Nominators
             THEN LET n == st.Nominators[nominator]
                      t1 == add_voter(bounds, tracker, Len(n.targets))
                      targets == RetainTargets(st, n.targets, n.submitted_in)
                  IN  IF next_will_exhaust(bounds, t1, Len(voters))
                      THEN voters
                      ELSE TakeNominators(st, bounds, Tail(order), t1,
                              IF Len(targets) # 0
                              THEN Append(voters, << nominator, weight_of(st, nominator), targets >>)
                              ELSE voters)
             ELSE TakeNominators(st, bounds, Tail(order), tracker, voters)

\* validator_order: the order Validators::iter() yields the validators in;
\* nominator_order: the order the sorted list provider yields the nominators in
get_npos_voters_bounded(st, bounds, validator_order, nominator_order) ==
    LET v == TakeValidators(st, bounds, validator_order, 0, << >>)
    IN  IF ~next_will_exhaust(bounds, v.tracker, Len(v.voters))
        THEN TakeNominators(st, bounds, nominator_order, v.tracker, v.voters)
        ELSE v.voters

\* the filter_map over T::SortedListProvider::iter()
RECURSIVE NominatorVotes(_, _)
NominatorVotes(st, order) ==
    IF order = << >> THEN << >>
    ELSE LET nominator == Head(order)
             rest == NominatorVotes(st, Tail(order))
         IN  IF nominator \in DOMAIN st.Nominators
             THEN LET n == st.Nominators[nominator]
                      targets == RetainTargets(st, n.targets, n.submitted_in)
                  IN  IF targets # << >>
                      THEN << << nominator, weight_of(st, nominator), targets >> >> \o rest
                      ELSE rest
             ELSE rest

ValidatorVotes(st, order) ==
    [i \in 1..Len(order) |-> << order[i], weight_of(st, order[i]), << order[i] >> >>]

\* the unbounded variant that puts the validators' votes in front
get_npos_voters_validators_first(st, validator_order, nominator_order) ==
    ValidatorVotes(st, validator_order) \o NominatorVotes(st, nominator_order)

\* nominator_votes.extend(validator_votes); nominator_votes
get_npos_voters_unbounded(st, validator_order, nominator_order) ==
    NominatorVotes(st, nominator_order) \o ValidatorVotes(st, validator_order)

\* ElectionDataProvider::voters
data_provider_voters(st, bounds, validator_order, nominator_order) ==
    IF is_unbounded(bounds)
    THEN get_npos_voters_unbounded(st, validator_order, nominator_order)
    ELSE get_npos_voters_bounded(st, bounds, validator_order, nominator_order)

\* the loop of get_npos_targets_bounded with the length prefix left out of
\* new_final_size
RECURSIVE TakeTargetsNoPrefix(_, _, _, _)
TakeTargetsNoPrefix(bounds, order, internal_size, targets) ==
    IF order = << >> THEN targets
    ELSE LET new_internal_size == internal_size + AccountIdSize
             new_final_size == new_internal_size
             new_count == Len(targets) + 1
             exhaust ==
                CASE IsSome(size_bound(bounds)) /\ IsSome(count_bound(bounds)) ->
                        \/ new_final_size > Unwrap(size_bound(bounds))
                        \/ new_count > Unwrap(count_bound(bounds))
                  [] IsSome(size_bound(bounds)) -> new_final_size > Unwrap(size_bound(bounds))
                  [] IsSome(count_bound(bounds)) -> new_count > Unwrap(count_bound(bounds))
                  [] OTHER -> FALSE
         IN  IF exhaust THEN targets
             ELSE TakeTargetsNoPrefix(bounds, Tail(order), new_internal_size,
                                      Append(targets, Head(order)))

\* the loop over Validators::<T>::iter() of get_npos_targets_bounded; `exhaust`
\* is its closure next_will_exhaust(new_final_size, new_count)
RECURSIVE TakeTargets(_, _, _, _)
TakeTargets(bounds, order, internal_size, targets) ==
    IF order = << >> THEN targets
    ELSE LET new_internal_size == internal_size + AccountIdSize
             new_final_size == new_internal_size + length_prefix(Len(targets) + 1)
             new_count == Len(targets) + 1
             exhaust ==
                CASE IsSome(size_bound(bounds)) /\ IsSome(count_bound(bounds)) ->
                        \/ new_final_size > Unwrap(size_bound(bounds))
                        \/ new_count > Unwrap(count_bound(bounds))
                  [] IsSome(size_bound(bounds)) -> new_final_size > Unwrap(size_bound(bounds))
                  [] IsSome(count_bound(bounds)) -> new_count > Unwrap(count_bound(bounds))
                  [] OTHER -> FALSE
         IN  IF exhaust THEN targets
             ELSE TakeTargets(bounds, Tail(order), new_internal_size,
                              Append(targets, Head(order)))

\* validator_order: the order Validators::iter() yields the validators in
get_npos_targets_bounded(bounds, validator_order) ==
    TakeTargets(bounds, validator_order, 0, << >>)

\* ------------------------------------------------------------------------
\* Registry
\* ------------------------------------------------------------------------
\* do_add_nominator that counts every call
do_add_nominator_counting_updates(st, who, nominations) ==
    [st EXCEPT
        !.CounterForNominators = @ + 1,
        !.Nominators = Put(@, who, nominations)]

do_add_nominator(st, who, nominations) ==
    [st EXCEPT
        !.CounterForNominators = IF who \in DOMAIN st.Nominators THEN @ ELSE @ + 1,
        !.Nominators = Put(@, who, nominations)]

do_remove_nominator(st, who) ==
    IF who \in DOMAIN st.Nominators
    THEN [ st |-> [st EXCEPT !.Nominators = Remove(@, who),
                             !.CounterForNominators = SaturatingSub(@, 1)],
           ret |-> TRUE ]
    ELSE [st |-> st, ret |-> FALSE]

do_add_validator(st, who, prefs) ==
    [st EXCEPT
        !.CounterForValidators = IF who \in DOMAIN st.Validators THEN @ ELSE @ + 1,
        !.Validators = Put(@, who, prefs)]

do_remove_validator(st, who) ==
    IF who \in DOMAIN st.Validators
    THEN [ st |-> [st EXCEPT !.Validators = Remove(@, who),
                             !.CounterForValidators = SaturatingSub(@, 1)],
           ret |-> TRUE ]
    ELSE [st |-> st, ret |-> FALSE]

\* ------------------------------------------------------------------------
\* Initial state: genesis, five bonded stashes, three validators, two nominators
\* ------------------------------------------------------------------------
\* ret: whether Event::Chilled is deposited
chill_stash(st, stash) ==
    LET chilled_as_validator == do_remove_validator(st, stash)
        chilled_as_nominator == do_remove_nominator(chilled_as_validator.st, stash)
    IN  [ st |-> chilled_as_nominator.st,
          ret |-> chilled_as_validator.ret \/ chilled_as_nominator.ret ]

\* metadata_cleared: whether slashing::clear_stash_metadata, which checks
\* num_slashing_spans against the stash's spans, answers Ok
kill_stash(st, stash, metadata_cleared) ==
    IF Get(st.Bonded, stash) = None THEN [st |-> st, ret |-> "NotStash"]
    ELSE IF ~metadata_cleared THEN [st |-> st, ret |-> "IncorrectSlashingSpans"]
    ELSE LET controller == st.Bonded[stash]
             st1 == [st EXCEPT !.SlashingSpans = Remove(@, stash),
                               !.Bonded = Remove(@, stash),
                               !.Ledger = Remove(@, controller),
                               !.Payee = Remove(@, stash)]
             st2 == do_remove_validator(st1, stash).st
         IN  [st |-> do_remove_nominator(st2, stash).st, ret |-> "Ok"]

\* UseNominatorsMap::clear. order: the order remove_all walks Nominators in;
\* overflow_checks: whether the build panics on integer overflow (ret None)
\* or wraps. CounterForNominators is a u32: a wrapped value v >= 2^31 is held
\* as v - 2^32, so that noms - count below zero stays noms - count.
clear(st, maybe_count, order, overflow_checks) ==
    LET removed == IF maybe_count = None THEN Len(order)
                   ELSE Min(Unwrap(maybe_count), Len(order))
        st1 == [st EXCEPT
                  !.Nominators = [w \in DOMAIN @ \ {order[i] : i \in 1..removed} |-> @[w]]]
    IN  IF IsSome(maybe_count)
        THEN LET count == Unwrap(maybe_count)
             IN  IF st.CounterForNominators < count /\ overflow_checks
                 THEN [st |-> st, ret |-> None]
                 ELSE [ st |-> [st1 EXCEPT !.CounterForNominators = @ - count],
                        ret |-> Some(count) ]
        ELSE [ st |-> [st1 EXCEPT !.CounterForNominators = 0],
               ret |-> Some(st.CounterForNominators) ]

HalfCommission == 500000000

GenesisValidators ==
    [v \in {1, 2, 3} |-> [commission |-> IF v = 1 THEN HalfCommission ELSE 0, blocked |-> FALSE]]

GenesisNominators ==
    [n \in {4, 5} |-> [ targets |-> IF n = 4 THEN << 1 >> ELSE << 1, 3 >>,
                        submitted_in |-> 0, suppressed |-> FALSE ]]

GenesisStake(s) == IF s \in {2, 4, 5} THEN 4 ELSE 2

GenesisPayee(s) ==
    CASE s = 1 -> "Staked" [] s = 2 -> "Stash" [] s = 3 -> "Stash"
      [] s = 4 -> "Controller" [] OTHER -> "None"

\* history_depth: the genesis value of the HistoryDepth storage item
InitWithDepth(spans, history_depth) ==
    /\ HistoryDepth = history_depth
    /\ CurrentEra = None
    /\ ActiveEra = None
    /\ ErasStartSessionIndex = EmptyMap
    /\ ForceEra = "NotForcing"
    /\ CurrentPlannedSession = 0
    /\ BondedEras = << >>
    /\ ErasStakers = EmptyMap
    /\ ErasStakersClipped = EmptyMap
    /\ ErasValidatorPrefs = EmptyMap
    /\ ErasTotalStake = EmptyMap
    /\ ErasValidatorReward = EmptyMap
    /\ ErasRewardPoints = EmptyMap
    /\ OffendingValidators = {}
    /\ EarliestUnappliedSlash = None
    /\ UnappliedSlashes = EmptyMap
    /\ SlashingSpans = spans
    /\ ValidatorSlashInEra = EmptyMap
    /\ Validators = GenesisValidators
    /\ Nominators = GenesisNominators
    /\ CounterForValidators = 3
    /\ CounterForNominators = 2
    /\ Bonded = [s \in Stashes |-> ControllerOf(s)]
    /\ Ledger = [c \in {ControllerOf(s) : s \in Stashes} |->
                    [ stash |-> c - 10, total |-> GenesisStake(c - 10),
                      active |-> GenesisStake(c - 10), claimed_rewards |-> << >> ]]
    /\ Payee = [s \in Stashes |-> GenesisPayee(s)]
    /\ Balances = [s \in Stashes |-> GenesisStake(s) + 1]
    /\ Locks = [s \in Stashes |-> GenesisStake(s)]
    /\ planned = -1
    /\ started = -1
    /\ ended = -1
    /\ lastCall = [op |-> "genesis"]
    /\ triggers = 0
    /\ tolerated = 0
    /\ offences = << >>
    /\ applied = << >>
    /\ paid = EmptyMap
    /\ claimedOk = {}

InitWith(spans) == InitWithDepth(spans, 1)

Init == InitWith(EmptyMap)

\* ------------------------------------------------------------------------
\* What the election provider may answer
\* ------------------------------------------------------------------------
SupportsA ==
    << << 1, [total |-> 3, voters |-> << << 1, 1 >>, << 4, 2 >> >>] >>,
       << 2, [total |-> 2, voters |-> << << 2, 2 >> >>] >> >>

SupportsB ==
    << << 1, [total |-> 4, voters |-> << << 1, 1 >>, << 4, 1 >>, << 5, 2 >> >>] >>,
       << 3, [total |-> 1, voters |-> << << 3, 1 >> >>] >> >>

SupportsOne == << << 1, [total |-> 1, voters |-> << << 1, 1 >> >>] >> >>

ElectionFailed == [ok |-> FALSE]
Elected(supports) == [ok |-> TRUE, supports |-> supports]

GoodElections == {Elected(SupportsA), Elected(SupportsB)}
Elections == {ElectionFailed, Elected(<< >>), Elected(SupportsOne), Elected(SupportsA)}

\* ------------------------------------------------------------------------
\* The session layer (pallet_session): new_session(s + 1) is called before
\* end_session(s); sessions start and end in order
\* ------------------------------------------------------------------------
\* no session rotation is under way: extrinsics and block hooks run here
Settled == started >= 0 /\ ended = started - 1 /\ planned = started + 1

NewSession(election) ==
    /\ planned < MaxSession
    /\ planned <= started + 1
    /\ LET new_index == planned + 1
           is_genesis == started = -1
           st0 == [Storage EXCEPT !.CurrentPlannedSession = new_index]
           r == new_session(st0, new_index, is_genesis, election)
       IN  /\ Commit(r.st)
           /\ planned' = new_index
           /\ lastCall' = [ op |-> "new_session", index |-> new_index,
                            attempted |-> (CurrentEra = None \/ era_trigger_due(st0, new_index)),
                            ok |-> election.ok,
                            winners |-> IF election.ok THEN Len(election.supports) ELSE 0,
                            ensured |-> lastCall.op = "ensure_new_era",
                            ret |-> r.ret ]
           /\ triggers' = IF IsSome(r.ret) THEN triggers + 1 ELSE triggers
           /\ tolerated' = IF r.ret = None /\ r.st.CurrentEra # CurrentEra
                           THEN tolerated + 1 ELSE tolerated
    /\ UNCHANGED << started, ended, offences, paid, claimedOk >>

StartSession ==
    /\ started < planned
    /\ ended = started
    /\ LET index == started + 1
       IN  /\ Commit(start_session(Storage, index))
           /\ started' = index
           /\ lastCall' = [op |-> "start_session", index |-> index]
    /\ UNCHANGED << planned, ended, triggers, tolerated, offences, paid, claimedOk >>

\* abnormal: the session layer skips a session
StartSessionSkipped ==
    /\ started + 1 < planned
    /\ ended = started
    /\ LET index == started + 2
       IN  /\ Commit(start_session(Storage, index))
           /\ started' = index
           /\ ended' = index - 1
           /\ lastCall' = [op |-> "start_session", index |-> index]
    /\ UNCHANGED << planned, triggers, tolerated, offences, paid, claimedOk >>

EndSession(validator_payout) ==
    /\ started >= 0
    /\ ended < started
    /\ planned > started
    /\ Commit(end_session(Storage, started, validator_payout))
    /\ ended' = started
    /\ lastCall' = [op |-> "end_session", index |-> started]
    /\ UNCHANGED << planned, started, triggers, tolerated, offences, paid, claimedOk >>

OnFinalize ==
    /\ Settled
    /\ IsSome(ActiveEra) /\ Unwrap(ActiveEra).start = None
    /\ Commit(on_finalize(Storage))
    /\ lastCall' = [op |-> "on_finalize"]
    /\ UNCHANGED << planned, started, ended, triggers, tolerated, offences, paid, claimedOk >>

\* force_new_era, force_no_eras, force_new_era_always
SetForceEra(mode) ==
    /\ Settled
    /\ ForceEra # mode
    /\ Commit([Storage EXCEPT !.ForceEra = mode])
    /\ lastCall' = [op |-> "force", mode |-> mode]
    /\ UNCHANGED << planned, started, ended, triggers, tolerated, offences, paid, claimedOk >>

EnsureNewEra ==
    /\ Settled
    /\ Commit(ensure_new_era(Storage))
    /\ lastCall' = [op |-> "ensure_new_era", before |-> ForceEra]
    /\ UNCHANGED << planned, started, ended, triggers, tolerated, offences, paid, claimedOk >>

\* ------------------------------------------------------------------------
\* Offence reports
\* ------------------------------------------------------------------------
\* the slashes of a queue that the report with these reporters put there
QueuedBy(queue, reporters) ==
    {<< k, i >> \in UNION {{<< e, j >> : j \in DOMAIN queue[e]} : e \in DOMAIN queue} :
        queue[k][i].reporters = reporters}

OnOffence(stash, fraction, slash_session) ==
    /\ Settled \/ started = -1 \/ (started = MaxSession /\ ended = started - 1)
    /\ Len(offences) < MaxOffences
    /\ slash_session <= Max(started, 0)
    /\ LET reporters == << 100 + Len(offences) >>
           r == on_offence(Storage, << [stash |-> stash, fraction |-> fraction,
                                        reporters |-> reporters] >>, slash_session)
           new == QueuedBy(r.st.UnappliedSlashes, reporters)
       IN  /\ Commit(r.st)
           /\ lastCall' = [ op |-> "on_offence", stash |-> stash, fraction |-> fraction,
                            slash_session |-> slash_session, reporters |-> reporters,
                            ret |-> r.ret ]
           /\ offences' = Append(offences,
                            [ reporters |-> reporters,
                              key |-> IF new = {} THEN None
                                      ELSE Some((CHOOSE q \in new : TRUE)[1]) ])
    /\ UNCHANGED << planned, started, ended, triggers, tolerated, paid, claimedOk >>

\* ------------------------------------------------------------------------
\* Reward points and payouts
\* ------------------------------------------------------------------------
ElectedIn(era) == {k[2] : k \in {x \in DOMAIN ErasStakers : x[1] = era}}

PointsOf(era) == GetOr(ErasRewardPoints, era, [total |-> 0, individual |-> EmptyMap])

\* reward_by_ids for one validator of the active era's elected set
RewardByIds(validator, points) ==
    /\ Settled
    /\ IsSome(ActiveEra)
    /\ validator \in ElectedIn(Unwrap(ActiveEra).index)
    /\ PointsOf(Unwrap(ActiveEra).index).total + points <= MaxPoints
    /\ Commit(reward_by_ids(Storage, << << validator, points >> >>))
    /\ lastCall' = [op |-> "reward_by_ids"]
    /\ UNCHANGED << planned, started, ended, triggers, tolerated, offences, paid, claimedOk >>

RECURSIVE SumRewarded(_)
SumRewarded(rewarded) ==
    IF rewarded = << >> THEN 0 ELSE Head(rewarded)[2] + SumRewarded(Tail(rewarded))

PayoutStakers(validator_stash, era, dead) ==
    /\ Settled
    /\ LET r == do_payout_stakers(Storage, validator_stash, era, dead)
           before == GetOr(paid, era, [amount |-> 0, recipients |-> 0])
       IN  /\ Commit(r.st)
           /\ lastCall' = [ op |-> "payout", stash |-> validator_stash, era |-> era,
                            ret |-> r.ret, rewarded |-> r.rewarded,
                            claimed_before |-> << validator_stash, era >> \in claimedOk ]
           /\ paid' = IF r.rewarded = << >> THEN paid
                      ELSE Put(paid, era,
                             [ amount |-> before.amount + SumRewarded(r.rewarded),
                               recipients |-> before.recipients + Len(r.rewarded),
                               payout |-> ErasValidatorReward[era] ])
           /\ claimedOk' = IF r.ret = "Ok" THEN claimedOk \cup {<< validator_stash, era >>}
                           ELSE claimedOk
    /\ UNCHANGED << planned, started, ended, triggers, tolerated, offences >>

\* ------------------------------------------------------------------------
\* Registry changes and the voter snapshot
\* ------------------------------------------------------------------------
MaxCount == 3
SizeBounds == {0, 26, 60, 101, 134}
NominationChoices == {<< 1 >>, << 2 >>, << 2, 3 >>}

\* every order a map of these keys may be iterated in
Orders(S) == {o \in [1..Cardinality(S) -> S] : \A i, j \in DOMAIN o : i # j => o[i] # o[j]}

registryHistory == << planned, started, ended, triggers, tolerated, offences, paid, claimedOk >>

AddValidator(who, prefs) ==
    /\ Commit(do_add_validator(Storage, who, prefs))
    /\ lastCall' = [op |-> "do_add_validator", who |-> who, prefs |-> prefs]
    /\ UNCHANGED registryHistory

RemoveValidator(who) ==
    /\ LET r == do_remove_validator(Storage, who)
       IN  /\ Commit(r.st)
           /\ lastCall' = [op |-> "do_remove_validator", who |-> who, ret |-> r.ret]
    /\ UNCHANGED registryHistory

AddNominator(who, targets) ==
    /\ Commit(do_add_nominator(Storage, who,
            [targets |-> targets, submitted_in |-> 0, suppressed |-> FALSE]))
    /\ lastCall' = [op |-> "do_add_nominator", who |-> who, targets |-> targets]
    /\ UNCHANGED registryHistory

RemoveNominator(who) ==
    /\ LET r == do_remove_nominator(Storage, who)
       IN  /\ Commit(r.st)
           /\ lastCall' = [op |-> "do_remove_nominator", who |-> who, ret |-> r.ret]
    /\ UNCHANGED registryHistory

\* a snapshot is taken of a registry that changed since the last one: a second
\* snapshot of the same registry is this same call
VotersBounded(bounds, validator_order, nominator_order) ==
    /\ lastCall.op # "get_npos_voters_bounded"
    /\ ~is_unbounded(bounds)
    /\ Commit(Storage)
    /\ lastCall' = [ op |-> "get_npos_voters_bounded", bounds |-> bounds,
                     validator_order |-> validator_order,
                     nominator_order |-> nominator_order,
                     ret |-> get_npos_voters_bounded(Storage, bounds, validator_order,
                                                     nominator_order) ]
    /\ UNCHANGED registryHistory

\* the voters call without bounds
VotersUnbounded(validator_order, nominator_order) ==
    /\ lastCall.op \notin {"get_npos_voters_bounded", "get_npos_voters_unbounded"}
    /\ Commit(Storage)
    /\ LET bounds == [size |-> None, count |-> None]
       IN  lastCall' = [ op |-> "get_npos_voters_unbounded", bounds |-> bounds,
                         validator_order |-> validator_order,
                         nominator_order |-> nominator_order,
                         ret |-> data_provider_voters(Storage, bounds, validator_order,
                                                      nominator_order) ]
    /\ UNCHANGED registryHistory

ChillStash(stash) ==
    /\ LET r == chill_stash(Storage, stash)
       IN  /\ Commit(r.st)
           /\ lastCall' = [op |-> "chill_stash", who |-> stash, ret |-> r.ret]
    /\ UNCHANGED registryHistory

KillStash(stash, metadata_cleared) ==
    /\ LET r == kill_stash(Storage, stash, metadata_cleared)
       IN  /\ Commit(r.st)
           /\ lastCall' = [op |-> "kill_stash", who |-> stash, ret |-> r.ret]
    /\ UNCHANGED registryHistory

Clear(maybe_count, order, overflow_checks) ==
    /\ LET r == clear(Storage, maybe_count, order, overflow_checks)
       IN  /\ Commit(r.st)
           /\ lastCall' = [ op |-> "clear", maybe_count |-> maybe_count,
                            stored |-> Cardinality(DOMAIN Nominators), ret |-> r.ret ]
    /\ UNCHANGED registryHistory

\* ElectionDataProvider::targets with bounds that are not unbounded
TargetsBounded(bounds, validator_order) ==
    /\ ~is_unbounded(bounds)
    /\ Commit(Storage)
    /\ lastCall' = [ op |-> "get_npos_targets_bounded", bounds |-> bounds,
                     validator_order |-> validator_order,
                     ret |-> get_npos_targets_bounded(bounds, validator_order) ]
    /\ UNCHANGED registryHistory

\* ------------------------------------------------------------------------
\* The size tracker next to the list it measures (length_tracking_works)
\* ------------------------------------------------------------------------
MaxVoters == 65
MaxVaried == 2

\* StaticSizeTracker::new() and an empty Vec<Voter>
TrackerNew ==
    /\ lastCall.op # "new"
    /\ Commit(Storage)
    /\ lastCall' = [op |-> "new", tracker |-> 0, voters |-> << >>]
    /\ UNCHANGED registryHistory

\* voters.push((who, weight, targets)); tracker.register_voter(targets.len()).
\* The first MaxVaried voters take every number of votes, the later ones one.
PushVoter(votes) ==
    /\ lastCall.op \in {"new", "register_voter"}
    /\ Len(lastCall.voters) < MaxVoters
    /\ Len(lastCall.voters) >= MaxVaried => votes = 1
    /\ Commit(Storage)
    /\ lastCall' = [ op |-> "register_voter",
                     tracker |-> register_voter(lastCall.tracker, votes),
                     voters |-> Append(lastCall.voters,
                                  << Len(lastCall.voters) + 1, 10, [i \in 1..votes |-> i] >>) ]
    /\ UNCHANGED registryHistory

\* ------------------------------------------------------------------------
\* Specifications
\* ------------------------------------------------------------------------
EraPayouts == {30}
MaxPayoutSession == 4
MaxPayoutEra == (MaxPayoutSession \div SessionsPerEra) - 1

\* the scheduler under every answer of the election provider
Next ==
    \/ \E election \in Elections : NewSession(election)
    \/ StartSession
    \/ StartSessionSkipped
    \/ EndSession(30)
    \/ OnFinalize
    \/ \E mode \in Forcing : SetForceEra(mode)
    \/ EnsureNewEra

Spec == Init /\ [][Next]_vars

\* offence reports while eras rotate
NextSlash ==
    \/ \E election \in GoodElections : NewSession(election)
    \/ StartSession
    \/ EndSession(30)
    \/ OnFinalize
    \/ \E stash \in {1, 3}, fraction \in {0, 1}, slash_session \in 0..MaxSession :
          OnOffence(stash, fraction, slash_session)

SpecSlash == Init /\ [][NextSlash]_vars

\* eras rotating under every genesis history depth, with the session layer's
\* calls in order: new_session(s + 1), end_session(s), start_session(s + 1)
MaxHistoryDepth == 1

InitHistory ==
    \E history_depth \in 0..MaxHistoryDepth : InitWithDepth(EmptyMap, history_depth)

NextHistory ==
    \/ \E election \in {Elected(SupportsA), ElectionFailed} :
          /\ started = -1 \/ planned <= started
          /\ NewSession(election)
    \/ StartSession
    \/ EndSession(30)
    \/ OnFinalize
    \/ SetForceEra("ForceNew")
    \/ RewardByIds(1, 30)

SpecHistory == InitHistory /\ [][NextHistory]_vars

\* the session layer calling in order, new_session(s + 1), end_session(s),
\* start_session(s + 1), without forcing and with elections that succeed; the
\* session layer does not stop between the calls of a rotation
NextOrdered ==
    \/ \E election \in GoodElections :
          /\ started = -1 \/ planned <= started
          /\ NewSession(election)
    \/ StartSession
    \/ EndSession(30)
    \/ OnFinalize

SpecOrdered ==
    Init /\ [][NextOrdered]_vars /\ WF_vars(StartSession) /\ WF_vars(EndSession(30))

\* reward points and payouts while eras rotate
NextPayout ==
    \/ \E election \in GoodElections : planned < MaxPayoutSession /\ NewSession(election)
    \/ StartSession
    \/ \E validator_payout \in EraPayouts : EndSession(validator_payout)
    \/ OnFinalize
    \/ RewardByIds(1, 20)
    \/ RewardByIds(3, 10)
    \/ \E validator_stash \in {1, 3, Unbonded}, era \in 0..MaxPayoutEra, dead \in {{}, {1}} :
          PayoutStakers(validator_stash, era, dead)

SpecPayout == Init /\ [][NextPayout]_vars

\* the voter snapshot over a changing registry
InitSnapshot ==
    \E spans \in {EmptyMap, [v \in {2} |-> [last_nonzero_slash |-> 1]]} : InitWith(spans)

BoundsChoices ==
    {[size |-> sz, count |-> c] :
        sz \in {None} \cup {Some(b) : b \in SizeBounds},
        c \in {None} \cup {Some(n) : n \in 0..MaxCount}}

NextSnapshot ==
    \/ \E who \in {1, 2, 3} : who \notin DOMAIN Validators /\ AddValidator(who, DefaultPrefs)
    \/ \E who \in {1, 2, 3} : RemoveValidator(who)
    \/ \E targets \in NominationChoices : AddNominator(4, targets)
    \/ \E who \in {4, 5} : RemoveNominator(who)
    \/ \E bounds \in BoundsChoices, validator_order \in Orders(DOMAIN Validators),
          nominator_order \in Orders(DOMAIN Nominators) :
          VotersBounded(bounds, validator_order, nominator_order)
    \/ \E validator_order \in Orders(DOMAIN Validators),
          nominator_order \in Orders(DOMAIN Nominators) :
          VotersUnbounded(validator_order, nominator_order)
    \/ \E size \in {None, Some(0), Some(9), Some(16)},
          count \in {None} \cup {Some(n) : n \in 0..MaxCount},
          validator_order \in Orders(DOMAIN Validators) :
          TargetsBounded([size |-> size, count |-> count], validator_order)

SpecSnapshot == InitSnapshot /\ [][NextSnapshot]_vars

\* StaticSizeTracker::length_prefix(length), as len_prefix_works calls it
LengthPrefix(length) ==
    /\ Commit(Storage)
    /\ lastCall' = [op |-> "length_prefix", length |-> length, ret |-> length_prefix(length)]
    /\ UNCHANGED registryHistory

\* SnapshotBounds::exhausts_size_count_non_zero(|| given_size, || given_count)
Exhausts(bounds, given_size, given_count) ==
    /\ Commit(Storage)
    /\ lastCall' = [ op |-> "exhausts_size_count_non_zero", bounds |-> bounds,
                     given_size |-> given_size, given_count |-> given_count,
                     ret |-> exhausts_size_count_non_zero(bounds, given_size, given_count) ]
    /\ UNCHANGED registryHistory

\* the size tracker and the bounds as pure functions of their inputs
NextTracker ==
    \/ TrackerNew
    \/ \E votes \in {0, 1, 3, 64} : PushVoter(votes)
    \/ \E length \in {0, 1, 62, 63, 64, 65, 16383, 16384, 16385,
                      1073741822, 1073741823, 1073741824, 2147483647} :
          LengthPrefix(length)
    \/ \E size \in {None, Some(0), Some(1), Some(9)}, count \in {None, Some(0), Some(1)},
          given_size \in {0, 1, 2, 9, 10}, given_count \in 0..2 :
          Exhausts([size |-> size, count |-> count], given_size, given_count)

SpecTracker == Init /\ [][NextTracker]_vars

\* the registry under its guarded entry points; account 1 may validate and
\* nominate at once
NextRegistry ==
    \/ \E who \in {1, 2}, prefs \in {DefaultPrefs, [DefaultPrefs EXCEPT !.blocked = TRUE]} :
          AddValidator(who, prefs)
    \/ \E who \in {1, 2, 4} : RemoveValidator(who)
    \/ \E who \in {1, 4}, targets \in NominationChoices : AddNominator(who, targets)
    \/ \E who \in {1, 4, 5} : RemoveNominator(who)
    \/ \E stash \in {1, 3, 5, Unbonded} : ChillStash(stash)
    \/ \E stash \in {1, 2, 4, Unbonded}, metadata_cleared \in BOOLEAN :
          KillStash(stash, metadata_cleared)

SpecRegistry == Init /\ [][NextRegistry]_vars

\* the nominator list cleared in part or whole between registry changes, up
\* to the call that wraps the counter
NextList ==
    \/ \E who \in {1, 4}, targets \in NominationChoices :
          CounterForNominators >= 0 /\ AddNominator(who, targets)
    \/ \E who \in {4, 5} : CounterForNominators >= 0 /\ RemoveNominator(who)
    \/ \E maybe_count \in {None} \cup {Some(k) : k \in 0..MaxCount},
          order \in Orders(DOMAIN Nominators), overflow_checks \in BOOLEAN :
          CounterForNominators >= 0 /\ Clear(maybe_count, order, overflow_checks)

SpecList == Init /\ [][NextList]_vars

\* ------------------------------------------------------------------------
\* Properties of the voter snapshot
\* ------------------------------------------------------------------------
\* Compact<u32> length of a vector of n items
CompactLen(n) == IF n < 64 THEN 1 ELSE IF n < 16384 THEN 2 ELSE IF n < 1073741824 THEN 4 ELSE 5

\* voters.encoded_size(): the SCALE encoding of Vec<(AccountId, VoteWeight, Vec<AccountId>)>
EncodedSize(voters) ==
    CompactLen(Len(voters))
        + SumSeq([i \in 1..Len(voters) |->
                    AccountIdSize + VoteWeightSize + CompactLen(Len(voters[i][3]))
                        + Len(voters[i][3]) * AccountIdSize])

SnapshotTaken == lastCall.op = "get_npos_voters_bounded"

C8_CountOnlyTakesValidators ==
    (SnapshotTaken /\ lastCall.bounds.size = None /\ IsSome(lastCall.bounds.count)
        /\ Cardinality(DOMAIN Validators) >= Unwrap(lastCall.bounds.count))
    => LET ret == lastCall.ret
       IN  /\ Len(ret) = Unwrap(lastCall.bounds.count)
           /\ \A i \in DOMAIN ret :
                 /\ ret[i][1] \in DOMAIN Validators
                 /\ ret[i][3] = << ret[i][1] >>
                 /\ ret[i][1] = lastCall.validator_order[i]
           /\ \A i, j \in DOMAIN ret : i # j => ret[i][1] # ret[j][1]

\* a count-only bound of two with three validators and nominators registered
C8_Witness ==
    /\ SnapshotTaken
    /\ lastCall.bounds = [size |-> None, count |-> Some(2)]
    /\ Cardinality(DOMAIN Validators) = 3
    /\ DOMAIN Nominators # {}
    /\ Len(lastCall.ret) = 2

\* ------------------------------------------------------------------------
\* Properties of deferred slashing
\* ------------------------------------------------------------------------
\* how often the slash of the report with these reporters took effect
TimesApplied(reporters) ==
    Cardinality({i \in DOMAIN applied : applied[i].slash.reporters = reporters})

StillQueued(o) ==
    /\ Unwrap(o.key) \in DOMAIN UnappliedSlashes
    /\ \E i \in DOMAIN UnappliedSlashes[Unwrap(o.key)] :
          UnappliedSlashes[Unwrap(o.key)][i].reporters = o.reporters

\* C2: with a positive defer duration D, a slash queued under era E takes effect
\* exactly once, at the era start that makes era E + D + 1 active and not
\* before, and leaves the queue at that moment
C2_DeferredSlashAppliedOnce ==
    \A n \in DOMAIN offences :
        LET o == offences[n]
        IN  (IsSome(o.key) /\ SlashDeferDuration > 0) =>
              LET due == IsSome(ActiveEra)
                            /\ Unwrap(ActiveEra).index >= Unwrap(o.key) + SlashDeferDuration + 1
              IN  /\ TimesApplied(o.reporters) = (IF due THEN 1 ELSE 0)
                  /\ StillQueued(o) <=> ~due
                  /\ \A i \in DOMAIN applied :
                        applied[i].slash.reporters = o.reporters
                            => applied[i].at = Unwrap(o.key) + SlashDeferDuration + 1

\* a slash queued under era 0 took effect when era 2 began
C2_Witness ==
    /\ \E n \in DOMAIN offences : offences[n].key = Some(0)
    /\ \E i \in DOMAIN applied : applied[i].at = 2
    /\ UnappliedSlashes = EmptyMap

\* C7: an offence whose session S precedes the active era's first session and
\* lies in the bonded window is slashed for the bonded era with the greatest
\* first session <= S, never for the active era
C7_OffenceAttributedToItsEra ==
    (/\ lastCall.op = "on_offence"
     /\ IsSome(ActiveEra)
     /\ BondedEras # << >>
     /\ lastCall.slash_session < BondedEras[Len(BondedEras)][2]
     /\ lastCall.slash_session >= BondedEras[1][2])
    => \E i \in DOMAIN BondedEras :
          /\ BondedEras[i][2] <= lastCall.slash_session
          /\ \A j \in DOMAIN BondedEras :
                BondedEras[j][2] <= lastCall.slash_session => BondedEras[j][2] <= BondedEras[i][2]
          /\ lastCall.ret = Some(BondedEras[i][1])
          /\ BondedEras[i][1] # Unwrap(ActiveEra).index
          /\ \A q \in QueuedBy(UnappliedSlashes, lastCall.reporters) :
                UnappliedSlashes[q[1]][q[2]].era = BondedEras[i][1]

\* in era 2 an offence of session 3 is reported and queued as a slash of era 1
C7_Witness ==
    /\ lastCall.op = "on_offence"
    /\ IsSome(ActiveEra) /\ Unwrap(ActiveEra).index = 2
    /\ lastCall.slash_session = 3
    /\ lastCall.ret = Some(1)
    /\ QueuedBy(UnappliedSlashes, lastCall.reporters) # {}

\* ------------------------------------------------------------------------
\* Properties of the era counter
\* ------------------------------------------------------------------------
\* CurrentEra changes only from none to 0 or from n to n + 1
EraStepsByOne ==
    CurrentEra' # CurrentEra =>
        IF CurrentEra = None THEN CurrentEra' = Some(0)
        ELSE CurrentEra' = Some(Unwrap(CurrentEra) + 1)

\* C4 (as stated): after N >= 1 successful era triggers CurrentEra is N - 1
C4_EraIsTriggersMinusOne ==
    triggers >= 1 => CurrentEra = Some(triggers - 1)

\* C4 (amended): after N >= 1 successful era triggers CurrentEra is N - 1, or N
\* when the first election, held with CurrentEra none, returned too few winners
\* and was tolerated (CurrentEra became 0 without a trigger); every change of
\* CurrentEra is from none to 0 or from n to n + 1
C4_EraCountsTriggers ==
    /\ [](/\ tolerated \in {0, 1}
          /\ triggers >= 1 => CurrentEra = Some(triggers - 1 + tolerated)
          /\ triggers = 0 => CurrentEra = (IF tolerated = 1 THEN Some(0) ELSE None))
    /\ [][EraStepsByOne]_vars

\* three successful triggers planned era 2
C4_Witness ==
    /\ triggers = 3
    /\ tolerated = 0
    /\ CurrentEra = Some(2)

\* the step is a new_session call whose era trigger was attempted and failed
FailedTrigger ==
    /\ planned' # planned
    /\ lastCall'.op = "new_session"
    /\ lastCall'.attempted
    /\ lastCall'.ret = None

\* C5 (as stated): a trigger that fails, by an error of the election provider
\* or by fewer winners than max(MinimumValidatorCount, 1), leaves CurrentEra and
\* the era start sessions unchanged
C5_FailedTriggerChangesNothing ==
    [][FailedTrigger => UNCHANGED << CurrentEra, ErasStartSessionIndex >>]_vars

\* C5 (amended): a trigger that fails leaves CurrentEra and the era start
\* sessions unchanged, except that too few winners while CurrentEra is none
\* set CurrentEra to 0 and record the session as the start of era 0
C5_FailedTriggerChangesNothingButFirst ==
    [][FailedTrigger =>
        \/ UNCHANGED << CurrentEra, ErasStartSessionIndex >>
        \/ /\ lastCall'.ok
           /\ CurrentEra = None
           /\ CurrentEra' = Some(0)
           /\ ErasStartSessionIndex' = Put(ErasStartSessionIndex, 0, planned')]_vars

\* a due trigger failed with era 1 planned and era 1 stays
C5_Witness ==
    /\ lastCall.op = "new_session"
    /\ lastCall.attempted
    /\ lastCall.ret = None
    /\ CurrentEra = Some(1)
    /\ triggers = 2

\* ------------------------------------------------------------------------
\* Properties of the payout
\* ------------------------------------------------------------------------
PayoutCalled == lastCall.op = "payout"

\* the era can be claimed for the stash: it lies in the history window, its
\* payout is recorded, the stash is bonded and its controller has a ledger
Claimable(stash, era) ==
    /\ IsSome(CurrentEra)
    /\ era <= Unwrap(CurrentEra)
    /\ era + HistoryDepth >= Unwrap(CurrentEra)
    /\ era \in DOMAIN ErasValidatorReward
    /\ stash \in DOMAIN Bonded
    /\ Bonded[stash] \in DOMAIN Ledger

\* C3: for a claimable stash and era the first do_payout_stakers call succeeds
\* and every later call fails with AlreadyClaimed while the era stays within
\* history_depth of the current era
C3_ClaimedOnce ==
    (PayoutCalled /\ Claimable(lastCall.stash, lastCall.era))
    => lastCall.ret = (IF lastCall.claimed_before THEN "AlreadyClaimed" ELSE "Ok")

\* a second claim of era 0 by validator 1 was refused
C3_Witness ==
    /\ PayoutCalled
    /\ lastCall.stash = 1
    /\ lastCall.era = 0
    /\ lastCall.claimed_before
    /\ lastCall.ret = "AlreadyClaimed"

\* every validator holding points of the era has claimed it
AllClaimed(era) ==
    /\ era \in DOMAIN ErasRewardPoints
    /\ \A v \in DOMAIN ErasRewardPoints[era].individual : << v, era >> \in claimedOk

\* C6 (as stated): the amounts paid for an era, summed over the validators that
\* claimed it, never exceed the era's payout and fall short of it by less than
\* the number of recipients
C6_PaidWithinRecipientsOfPayout ==
    \A era \in DOMAIN paid :
        AllClaimed(era) =>
            /\ paid[era].amount <= paid[era].payout
            /\ paid[era].payout - paid[era].amount < paid[era].recipients

\* C6 (amended): the amounts paid for an era, summed over the validators that
\* claimed it, never exceed the era's payout (the shortfall is not bounded by
\* the number of recipients)
C6_PaidWithinPayout ==
    \A era \in DOMAIN paid : paid[era].amount <= paid[era].payout

\* both validators of era 0 held points and claimed: 20 of the 30 were paid
C6_Witness ==
    /\ 0 \in DOMAIN paid
    /\ AllClaimed(0)
    /\ Cardinality(DOMAIN ErasRewardPoints[0].individual) = 2
    /\ paid[0].recipients = 2
    /\ paid[0].amount = 20
    /\ paid[0].payout = 30

\* what the last do_payout_stakers call was about
ClaimedPoints == GetOr(PointsOf(lastCall.era).individual, lastCall.stash, 0)
ClaimedShare ==
    PerbillMul(PerbillFromRational(ClaimedPoints, PointsOf(lastCall.era).total),
               ErasValidatorReward[lastCall.era])
ClaimedExposure == GetOr(ErasStakersClipped, << lastCall.era, lastCall.stash >>, DefaultExposure)
BackersOf(era, stash) ==
    Len(GetOr(ErasStakers, << era, stash >>, DefaultExposure).others)

\* C9 (as stated, rounding allowed for): a validator with zero points and its
\* nominators are paid nothing; a validator with p > 0 of T points and its
\* nominators together receive the share p/T of the payout P, less at most one
\* unit of rounding for the validator and for each nominator
C9_ShareFullyPaid ==
    (PayoutCalled /\ lastCall.ret = "Ok")
    => IF ClaimedPoints = 0 THEN lastCall.rewarded = << >>
       ELSE /\ SumRewarded(lastCall.rewarded) <= ClaimedShare
            /\ ClaimedShare - SumRewarded(lastCall.rewarded)
                  <= 1 + BackersOf(lastCall.era, lastCall.stash)

\* C9 (amended): a validator with zero points and its nominators are paid
\* nothing; a validator with p > 0 of T points and the nominators of its
\* clipped exposure together receive at most the share p/T of P, and nobody
\* else is paid; with no nominators and own stake equal to the total exposure
\* the validator, when its deposit is made, receives exactly that share
C9_ShareIsUpperBound ==
    (PayoutCalled /\ lastCall.ret = "Ok")
    => IF ClaimedPoints = 0 THEN lastCall.rewarded = << >>
       ELSE /\ SumRewarded(lastCall.rewarded) <= ClaimedShare
            /\ \A i \in DOMAIN lastCall.rewarded :
                  \/ lastCall.rewarded[i][1] = lastCall.stash
                  \/ \E j \in DOMAIN ClaimedExposure.others :
                        ClaimedExposure.others[j].who = lastCall.rewarded[i][1]
            /\ (ClaimedExposure.others = << >> /\ ClaimedExposure.own = ClaimedExposure.total)
                  => lastCall.rewarded \in {<< >>, << << lastCall.stash, ClaimedShare >> >>}

\* validator 3, alone in its exposure, claimed its 10 of 30 points of era 0
C9_Witness ==
    /\ PayoutCalled
    /\ lastCall.ret = "Ok"
    /\ lastCall.stash = 3
    /\ lastCall.era = 0
    /\ ClaimedPoints = 10
    /\ PointsOf(0).total = 30
    /\ lastCall.rewarded = << << 3, ClaimedShare >> >>

\* C10: a do_payout_stakers call that returns an error leaves the ledgers with
\* their claimed eras, the balances and all other storage unchanged
C10_ErrorChangesNothing ==
    [][(lastCall'.op = "payout" /\ lastCall'.ret # "Ok")
        => UNCHANGED << storageVars, applied, paid, claimedOk >>]_vars

\* era 0, claimed before, is asked for again after it left the history window
C10_Witness ==
    /\ PayoutCalled
    /\ lastCall.ret = "InvalidEraToReward"
    /\ lastCall.era = 0
    /\ lastCall.claimed_before
    /\ CurrentEra = Some(2)


\* ------------------------------------------------------------------------
\* Properties of the target snapshot
\* ------------------------------------------------------------------------
\* targets.encoded_size(): the SCALE encoding of Vec<AccountId>
TargetsEncodedSize(n) == CompactLen(n) + n * AccountIdSize

TargetsTaken == lastCall.op = "get_npos_targets_bounded"

\* the list is a prefix of the iteration order that stops only at the end of
\* the order or at the first validator that would exceed a bound
TargetsMaximalPrefix ==
    LET ret == lastCall.ret
        order == lastCall.validator_order
        bounds == lastCall.bounds
    IN  /\ Len(ret) <= Len(order)
        /\ ret = SubSeq(order, 1, Len(ret))
        /\ \/ Len(ret) = Len(order)
           \/ IsSome(bounds.count) /\ Len(ret) + 1 > Unwrap(bounds.count)
           \/ IsSome(bounds.size)
                /\ TargetsEncodedSize(Len(ret) + 1) > Unwrap(bounds.size)

C12_TrackerMatchesEncoding ==
    lastCall.op \in {"new", "register_voter"}
    => final_byte_size_of(lastCall.tracker, Len(lastCall.voters)) = EncodedSize(lastCall.voters)

\* 64 voters (a two-byte outer prefix), one without targets and one with 64
\* targets (a two-byte inner prefix)
C12_Witness ==
    /\ lastCall.op = "register_voter"
    /\ Len(lastCall.voters) = 64
    /\ lastCall.voters[1][3] = << >>
    /\ Len(lastCall.voters[2][3]) = 64
    /\ lastCall.tracker = 17 + 530 + 62 * 25

\* the k little-endian bytes of x
RECURSIVE LittleEndian(_, _)
LittleEndian(x, k) ==
    IF k = 0 THEN << >> ELSE << x % 256 >> \o LittleEndian(x \div 256, k - 1)

\* the bytes of Compact<u32>(n), the length prefix of a vector of n items: the
\* two low bits of the first byte select the mode, the value follows shifted
\* left by two bits (single byte, two bytes, four bytes) or, in the last mode,
\* in four bytes of its own
CompactEncode(n) ==
    IF n < 64 THEN << n * 4 >>
    ELSE IF n < 16384 THEN << (n % 64) * 4 + 1 >> \o LittleEndian(n \div 64, 1)
    ELSE IF n < 1073741824 THEN << (n % 64) * 4 + 2 >> \o LittleEndian(n \div 64, 3)
    ELSE << 3 >> \o LittleEndian(n, 4)

\* C13: length_prefix(n) is the number of bytes of the compact length prefix of
\* a vector of n items: 1 for 0..=63, 2 for 64..=16383, 4 for
\* 16384..=1073741823 and 5 from 1073741824 on, so that a vector of n one-byte
\* items encodes to n + length_prefix(n) bytes
C13_LengthPrefixIsCompactLength ==
    lastCall.op = "length_prefix" =>
        LET n == lastCall.length
            encoded == CompactEncode(n) \o [i \in 1..Min(n, 70) |-> 1]
        IN  /\ lastCall.ret = Len(CompactEncode(n))
            /\ lastCall.ret = CASE n <= 63 -> 1
                                [] n >= 64 /\ n <= 16383 -> 2
                                [] n >= 16384 /\ n <= 1073741823 -> 4
                                [] OTHER -> 5
            /\ n <= 70 => Len(encoded) = n + lastCall.ret

\* the first length of the general arm
C13_Witness ==
    /\ lastCall.op = "length_prefix"
    /\ lastCall.length = 1073741824
    /\ lastCall.ret = 5
    /\ CompactEncode(lastCall.length) = << 3, 0, 0, 0, 64 >>

\* ------------------------------------------------------------------------
\* Properties of the era scheduler
\* ------------------------------------------------------------------------
\* C14: a validator set returned by new_session or new_session_genesis has at
\* least max(MinimumValidatorCount, 1) members, so it is never empty; when the
\* election answers with fewer winners no validator set is returned
C14_ReturnedSetIsLargeEnough ==
    lastCall.op = "new_session" =>
        /\ IsSome(lastCall.ret) =>
              /\ Len(Unwrap(lastCall.ret)) >= Max(MinimumValidatorCount, 1)
              /\ Len(Unwrap(lastCall.ret)) = lastCall.winners
              /\ Unwrap(lastCall.ret) # << >>
        /\ (lastCall.ok /\ lastCall.winners < Max(MinimumValidatorCount, 1))
              => lastCall.ret = None

\* an election with one winner, one fewer than the minimum, while era 0 exists
C14_Witness ==
    /\ lastCall.op = "new_session"
    /\ lastCall.attempted
    /\ lastCall.ok
    /\ lastCall.winners = 1
    /\ lastCall.ret = None
    /\ IsSome(CurrentEra)
    /\ triggers >= 1

\* C15: end_session records the payout of an era e (end_era for e) only in
\* states where era e + 1 is planned: CurrentEra >= e + 1 and a start session
\* index is recorded for era e + 1
C15_EraEndsAfterSuccessorPlanned ==
    [][ \A e \in 0..MaxSession :
          (lastCall'.op = "end_session"
              /\ Get(ErasValidatorReward', e) # Get(ErasValidatorReward, e))
          => /\ IsSome(ActiveEra) /\ Unwrap(ActiveEra).index = e
             /\ IsSome(CurrentEra) /\ Unwrap(CurrentEra) >= e + 1
             /\ IsSome(Get(ErasStartSessionIndex, e + 1))
             /\ IsSome(Get(ErasValidatorReward', e)) ]_vars

\* era 1 has just been ended by end_session while era 2 was planned
C15_Witness ==
    /\ lastCall.op = "end_session"
    /\ IsSome(ActiveEra) /\ Unwrap(ActiveEra).index = 1
    /\ IsSome(Get(ErasValidatorReward, 1))
    /\ CurrentEra = Some(2)

\* ------------------------------------------------------------------------
\* Properties of the registry
\* ------------------------------------------------------------------------
\* C16: after any sequence of do_add_nominator, do_remove_nominator,
\* do_add_validator, do_remove_validator, chill_stash and kill_stash calls each
\* counter is the number of entries of its map; adding an account that is
\* present updates its entry and leaves the counter alone; a remove returns
\* true exactly when the account was present
C16_CountersMatchMaps ==
    /\ [](/\ CounterForNominators = Cardinality(DOMAIN Nominators)
          /\ CounterForValidators = Cardinality(DOMAIN Validators))
    /\ [][ LET who == lastCall'.who
           IN  /\ lastCall'.op = "do_add_nominator" =>
                     /\ Nominators'[who].targets = lastCall'.targets
                     /\ DOMAIN Nominators' = DOMAIN Nominators \cup {who}
                     /\ who \in DOMAIN Nominators
                           => CounterForNominators' = CounterForNominators
               /\ lastCall'.op = "do_add_validator" =>
                     /\ Validators'[who] = lastCall'.prefs
                     /\ DOMAIN Validators' = DOMAIN Validators \cup {who}
                     /\ who \in DOMAIN Validators
                           => CounterForValidators' = CounterForValidators
               /\ lastCall'.op = "do_remove_nominator" =>
                     /\ lastCall'.ret = (who \in DOMAIN Nominators)
                     /\ DOMAIN Nominators' = DOMAIN Nominators \ {who}
               /\ lastCall'.op = "do_remove_validator" =>
                     /\ lastCall'.ret = (who \in DOMAIN Validators)
                     /\ DOMAIN Validators' = DOMAIN Validators \ {who} ]_vars

\* a nominator that is present was given new targets after stash 1 had been
\* killed
C16_Witness ==
    /\ lastCall.op = "do_add_nominator"
    /\ lastCall.who = 4
    /\ Nominators[4].targets = << 2, 3 >>
    /\ 1 \notin DOMAIN Bonded
    /\ CounterForNominators = 2
    /\ CounterForValidators = 2

\* C17: UseNominatorsMap::clear(maybe_count) returns the number of nominators
\* it removed (min(k, n) for Some(k) with n nominators stored, n for None) and
\* afterwards count(), CounterForNominators, is the number of nominators still
\* stored
C17_ClearReturnsRemoved ==
    lastCall.op = "clear" =>
        /\ lastCall.ret = Some(IF lastCall.maybe_count = None THEN lastCall.stored
                               ELSE Min(Unwrap(lastCall.maybe_count), lastCall.stored))
        /\ CounterForNominators = Cardinality(DOMAIN Nominators)

PlansNextEra ==
    /\ IsSome(lastCall'.ret)
    /\ CurrentEra' = Some(Unwrap(CurrentEra) + 1)
    /\ Get(ErasStartSessionIndex', Unwrap(CurrentEra) + 1) = Some(lastCall'.index)

C20_ElectionAttemptedWhenDue ==
    [][ lastCall'.op = "new_session" =>
          LET s == lastCall'.index
              due == IF CurrentEra = None THEN TRUE
                     ELSE \/ ForceEra \in {"ForceNew", "ForceAlways"}
                          \/ /\ ForceEra = "NotForcing"
                             /\ s - ErasStartSessionIndex[Unwrap(CurrentEra)] >= SessionsPerEra
          IN  /\ lastCall'.attempted <=> due
              /\ (lastCall'.ok /\ lastCall'.winners >= Max(MinimumValidatorCount, 1))
                    => (IsSome(lastCall'.ret) <=> due)
              /\ ~due => lastCall'.ret = None /\ CurrentEra' = CurrentEra
              /\ (IsSome(CurrentEra) /\ ForceEra = "ForceNone")
                    => ~lastCall'.attempted /\ CurrentEra' = CurrentEra ]_vars

\* under ForceNone a new_session passed without an election although the era
\* had lasted SessionsPerEra sessions, a good election being on offer
C20_Witness ==
    /\ lastCall.op = "new_session"
    /\ ~lastCall.attempted
    /\ lastCall.ok /\ lastCall.winners = 2
    /\ lastCall.ret = None
    /\ ForceEra = "ForceNone"
    /\ IsSome(CurrentEra)
    /\ lastCall.index - ErasStartSessionIndex[Unwrap(CurrentEra)] >= SessionsPerEra

\* C21 (as stated): after a new_session call made in mode ForceNew or
\* ForceAlways whose trigger succeeds, the mode is NotForcing
C21_ForcedTriggerResetsMode ==
    [][ (lastCall'.op = "new_session" /\ ForceEra \in {"ForceNew", "ForceAlways"}
            /\ IsSome(lastCall'.ret))
        => ForceEra' = "NotForcing" ]_vars

\* C21 (amended): a new_session call whose trigger succeeds turns ForceNew into
\* NotForcing when an era was present; ForceAlways stays, the mode is left
\* alone when there was no era, and a call that returns no set leaves it alone
C21_ForceNewResetsMode ==
    [][ lastCall'.op = "new_session" =>
          ForceEra' = IF IsSome(lastCall'.ret) /\ IsSome(CurrentEra) /\ ForceEra = "ForceNew"
                      THEN "NotForcing"
                      ELSE ForceEra ]_vars

\* a trigger succeeded under ForceAlways one session after the era before
C21_Witness ==
    /\ lastCall.op = "new_session"
    /\ IsSome(lastCall.ret)
    /\ ForceEra = "ForceAlways"
    /\ CurrentEra = Some(1)
    /\ ErasStartSessionIndex[1] = ErasStartSessionIndex[0] + 1

\* a new_session step that records era 0 at its session without exposures and
\* without a validator set
ToleratesShortResult ==
    /\ lastCall'.ret = None
    /\ CurrentEra' = Some(0)
    /\ Get(ErasStartSessionIndex', 0) = Some(lastCall'.index)
    /\ ErasStakers' = ErasStakers
    /\ ErasStakersClipped' = ErasStakersClipped
    /\ ErasValidatorPrefs' = ErasValidatorPrefs
    /\ ErasTotalStake' = ErasTotalStake

\* C22 (as stated): in a genesis call with no era present an election with
\* fewer winners than max(MinimumValidatorCount, 1) still records era 0; a
\* call that is not a genesis call and returns no validator set records no era
C22_ToleratedAtGenesisOnly ==
    [][ lastCall'.op = "new_session" =>
          /\ (started = -1 /\ CurrentEra = None /\ lastCall'.ok
                 /\ lastCall'.winners < Max(MinimumValidatorCount, 1))
                => ToleratesShortResult
          /\ (started # -1 /\ lastCall'.ret = None)
                => CurrentEra' = CurrentEra ]_vars

\* C22 (amended): whenever no era is present, in a genesis call or a later
\* one, an election with fewer winners than max(MinimumValidatorCount, 1)
\* still records era 0; once an era is present a call that returns no
\* validator set records nothing
C22_ToleratedWhileNoEra ==
    [][ lastCall'.op = "new_session" =>
          /\ (CurrentEra = None /\ lastCall'.ok
                 /\ lastCall'.winners < Max(MinimumValidatorCount, 1))
                => ToleratesShortResult
          /\ (IsSome(CurrentEra) /\ lastCall'.ret = None)
                => /\ CurrentEra' = CurrentEra
                   /\ ErasStartSessionIndex' = ErasStartSessionIndex ]_vars

\* era 0 recorded by a later call, session 0 having started, after the
\* genesis election failed
C22_Witness ==
    /\ lastCall.op = "new_session"
    /\ started >= 0
    /\ lastCall.ok /\ lastCall.winners = 0
    /\ lastCall.ret = None
    /\ CurrentEra = Some(0)
    /\ Get(ErasStartSessionIndex, 0) = Some(lastCall.index)
    /\ tolerated = 1

\* C23: start_session(s) advances the active era by exactly one (to 0 when
\* there is none), its start unset, if and only if the next era has a recorded
\* start session equal to s or, a session having been skipped, earlier than s;
\* otherwise the active era is unchanged
C23_EraStartsAtItsSession ==
    [][ lastCall'.op = "start_session" =>
          LET s == lastCall'.index
              next == IF IsSome(ActiveEra) THEN Unwrap(ActiveEra).index + 1 ELSE 0
              recorded == Get(ErasStartSessionIndex, next)
          IN  IF IsSome(recorded) /\ Unwrap(recorded) <= s
              THEN ActiveEra' = Some([index |-> next, start |-> None])
              ELSE ActiveEra' = ActiveEra ]_vars

\* era 1 became active at a session later than its recorded start session
C23_Witness ==
    /\ lastCall.op = "start_session"
    /\ ActiveEra = Some([index |-> 1, start |-> None])
    /\ ErasStartSessionIndex[1] < lastCall.index

\* the era after the active one has start session s + 1, s being the session
\* the end_session step ends
SuccessorStartsNext ==
    /\ IsSome(ActiveEra)
    /\ Get(ErasStartSessionIndex, Unwrap(ActiveEra).index + 1) = Some(lastCall'.index + 1)

\* an end_session step that ends the active era: its payout is persisted under
\* its index and the offending validators are cleared, nothing else changes
EndsActiveEra ==
    /\ \E payout \in EraPayouts :
          ErasValidatorReward' = Put(ErasValidatorReward, Unwrap(ActiveEra).index, payout)
    /\ OffendingValidators' = {}
    /\ ActiveEra' = ActiveEra /\ CurrentEra' = CurrentEra
    /\ UnappliedSlashes' = UnappliedSlashes /\ BondedEras' = BondedEras

\* C24 (as stated): end_session(s) called while the era after the active era
\* has start session s + 1 ends the active era; when that start session is
\* absent or different end_session changes nothing
C24_EndSessionEndsEra ==
    [][ lastCall'.op = "end_session" =>
          IF SuccessorStartsNext THEN EndsActiveEra ELSE storageVars' = storageVars ]_vars

\* C24 (amended): as above for an active era whose start has been set; an
\* active era whose start is still unset is not ended and nothing changes
C24_EndSessionEndsStartedEra ==
    [][ lastCall'.op = "end_session" =>
          IF SuccessorStartsNext /\ IsSome(Unwrap(ActiveEra).start)
          THEN EndsActiveEra
          ELSE storageVars' = storageVars ]_vars

\* era 0 was ended after an offence in it had marked a validator
C24_Witness ==
    /\ lastCall.op = "end_session"
    /\ IsSome(ActiveEra) /\ Unwrap(ActiveEra).index = 0
    /\ IsSome(Get(ErasValidatorReward, 0))
    /\ OffendingValidators = {}
    /\ IsSome(Get(UnappliedSlashes, 0))

\* C25: after every start_era BondedEras is ordered by strictly increasing era,
\* its last entry is (active era, the session passed to start_era), it holds
\* no era older than active_era - BondingDuration and so at most
\* BondingDuration + 1 entries; slashing metadata is cleared exactly for the
\* eras pruned in that step
C25_BondedErasWindow ==
    [][ (lastCall'.op = "start_session" /\ ActiveEra' # ActiveEra) =>
          LET active_era == Unwrap(ActiveEra').index
              bonded == BondedEras'
              pruned == {BondedEras[i][1] : i \in DOMAIN BondedEras}
                            \ {bonded[i][1] : i \in DOMAIN bonded}
          IN  /\ \A i, j \in DOMAIN bonded : i < j => bonded[i][1] < bonded[j][1]
              /\ bonded[Len(bonded)] = << active_era, lastCall'.index >>
              /\ \A i \in DOMAIN bonded : bonded[i][1] >= active_era - BondingDuration
              /\ Len(bonded) <= BondingDuration + 1
              /\ \A i \in DOMAIN BondedEras :
                    BondedEras[i][1] >= active_era - BondingDuration
                        => \E j \in DOMAIN bonded : bonded[j] = BondedEras[i]
              /\ ValidatorSlashInEra' =
                    [x \in {y \in DOMAIN ValidatorSlashInEra : y[1] \notin pruned}
                        |-> ValidatorSlashInEra[x]] ]_vars

\* era 3 started: era 0 left the window and its slashing metadata is gone,
\* that of era 1 is kept
C25_Witness ==
    /\ lastCall.op = "start_session"
    /\ ActiveEra = Some([index |-> 3, start |-> None])
    /\ Len(BondedEras) = BondingDuration + 1
    /\ BondedEras[1][1] = 1
    /\ \E i \in DOMAIN offences : offences[i].key = Some(0)
    /\ \E x \in DOMAIN ValidatorSlashInEra : x[1] = 1
    /\ \A x \in DOMAIN ValidatorSlashInEra : x[1] # 0

C27_QueuedUnderOffenceEra ==
    [][ (lastCall'.op = "on_offence" /\ IsSome(lastCall'.ret)) =>
            /\ \A era \in 0..MaxSession :
                  era # Unwrap(lastCall'.ret) =>
                      Get(UnappliedSlashes', era) = Get(UnappliedSlashes, era)
            /\ EarliestUnappliedSlash = None =>
                  EarliestUnappliedSlash' = lastCall'.ret ]_vars

\* C27: with a non-zero defer duration on_offence queues the computed slash
\* under the era that is active when the report arrives, whatever era the
\* offence was attributed to, and an unset watermark becomes that active era
C27_QueuedUnderActiveEra ==
    [][ (lastCall'.op = "on_offence" /\ IsSome(lastCall'.ret)) =>
            /\ SlashDeferDuration # 0
            /\ \A era \in 0..MaxSession :
                  era # Unwrap(ActiveEra).index =>
                      Get(UnappliedSlashes', era) = Get(UnappliedSlashes, era)
            /\ offences'[Len(offences')].key \in {None, Some(Unwrap(ActiveEra).index)}
            /\ EarliestUnappliedSlash = None =>
                  EarliestUnappliedSlash' = Some(Unwrap(ActiveEra).index) ]_vars

\* an offence of era 0, reported in era 1, was queued under era 1 and set the
\* watermark to 1
C27_Witness ==
    /\ lastCall.op = "on_offence"
    /\ lastCall.ret = Some(0)
    /\ ActiveEra = Some([index |-> 1, start |-> None])
    /\ Len(offences) = 1 /\ offences[1].key = Some(1)
    /\ IsSome(Get(UnappliedSlashes, 1)) /\ Get(UnappliedSlashes, 0) = None
    /\ EarliestUnappliedSlash = Some(1)

\* C28: a report whose session is earlier than the first session of the
\* active era and of every era in BondedEras, and any report made while no
\* era is active, is dropped: no storage item changes (no slash is computed,
\* applied or queued, the watermark stays as it was)
C28_StaleReportDropped ==
    [][ ( /\ lastCall'.op = "on_offence"
          /\ \/ ActiveEra = None
             \/ /\ lastCall'.slash_session <
                       UnwrapOr(Get(ErasStartSessionIndex, Unwrap(ActiveEra).index), 0)
                /\ \A i \in 1..Len(BondedEras) :
                       lastCall'.slash_session < BondedEras[i][2] ) =>
            /\ lastCall'.ret = None
            /\ UNCHANGED storageVars ]_vars

\* a full slash of validator 1 for session 0 was reported in era 3, after
\* era 0 left BondedEras, and while an earlier report is still queued
C28_Witness ==
    /\ lastCall.op = "on_offence"
    /\ lastCall.slash_session = 0 /\ lastCall.fraction = 1 /\ lastCall.stash = 1
    /\ lastCall.ret = None
    /\ ActiveEra = Some([index |-> 3, start |-> None])
    /\ BondedEras[1][1] = 1
    /\ Len(offences) = 2 /\ IsSome(offences[1].key) /\ offences[2].key = None
    /\ EarliestUnappliedSlash = Some(2)

\* a report made before any era is active
C28_NoActiveEra ==
    /\ lastCall.op = "on_offence"
    /\ ActiveEra = None
    /\ lastCall.fraction = 1

\* total == own + sum of others' values
Balanced(exposure) ==
    exposure.total =
        exposure.own + SumSeq([i \in 1..Len(exposure.others) |-> exposure.others[i].value])

\* C29 as stated: the full exposure record and the reward exposure record of
\* every era both satisfy total == own + sum of others' values
C29_BothRecordsBalanced ==
    /\ \A key \in DOMAIN ErasStakers : Balanced(ErasStakers[key])
    /\ \A key \in DOMAIN ErasStakersClipped : Balanced(ErasStakersClipped[key])

\* C29: every full exposure record satisfies total == own + sum of others'
\* values; the reward record keeps the full record's total and own, so it
\* satisfies total >= own + sum of its others, with equality when no
\* nominator was cut off
C29_FullRecordBalanced ==
    /\ \A key \in DOMAIN ErasStakers : Balanced(ErasStakers[key])
    /\ DOMAIN ErasStakersClipped = DOMAIN ErasStakers
    /\ \A key \in DOMAIN ErasStakersClipped :
          LET full == ErasStakers[key]
              clipped == ErasStakersClipped[key]
          IN  /\ clipped.total = full.total
              /\ clipped.own = full.own
              /\ clipped.total >= clipped.own +
                    SumSeq([i \in 1..Len(clipped.others) |-> clipped.others[i].value])
              /\ Len(full.others) <= MaxNominatorRewardedPerValidator => Balanced(clipped)

\* validator 1 won era 1 with two nominators behind it: the full record sums
\* to its total of 8, the reward record keeps one nominator and the total
C29_Witness ==
    /\ << 1, 1 >> \in DOMAIN ErasStakers
    /\ ErasStakers[<< 1, 1 >>] =
          [ own |-> 2, total |-> 8,
            others |-> << [who |-> 4, value |-> 2], [who |-> 5, value |-> 4] >> ]
    /\ ErasStakersClipped[<< 1, 1 >>].total = 8
    /\ Len(ErasStakersClipped[<< 1, 1 >>].others) = 1

\* the exposure lists every backer of the support other than the winner, once
\* per support entry
ListsAllBackers(exposure, validator, voters) ==
    LET backers == {j \in 1..Len(voters) : voters[j][1] # validator}
    IN  /\ Len(exposure.others) = Cardinality(backers)
        /\ \A j \in backers :
              \E k \in 1..Len(exposure.others) :
                  exposure.others[k] =
                      [who |-> voters[j][1], value |-> to_currency(voters[j][2])]

\* the clipped list holds the highest-value entries of the full list, in
\* descending value order
HighestInOrder(clipped, full) ==
    /\ Len(clipped) = MaxNominatorRewardedPerValidator
    /\ \A k \in 1..Len(clipped) : \E i \in 1..Len(full) : full[i] = clipped[k]
    /\ \A k \in 1..(Len(clipped) - 1) : clipped[k].value >= clipped[k + 1].value
    /\ \A i \in 1..Len(full) :
          (\A k \in 1..Len(clipped) : clipped[k] # full[i]) =>
              \A k \in 1..Len(clipped) : full[i].value <= clipped[k].value

ErasWithRecords ==
    DOMAIN ErasStartSessionIndex \cup DOMAIN ErasValidatorReward
        \cup DOMAIN ErasRewardPoints \cup DOMAIN ErasTotalStake
        \cup {key[1] : key \in DOMAIN ErasStakers}
        \cup {key[1] : key \in DOMAIN ErasStakersClipped}
        \cup {key[1] : key \in DOMAIN ErasValidatorPrefs}

\* the eras that have a record written by the trigger that planned them
ErasWithTriggerRecords ==
    DOMAIN ErasStartSessionIndex \cup DOMAIN ErasTotalStake
        \cup {key[1] : key \in DOMAIN ErasStakers}
        \cup {key[1] : key \in DOMAIN ErasStakersClipped}
        \cup {key[1] : key \in DOMAIN ErasValidatorPrefs}

\* C31 as stated: per-era records (start session index, exposures, validator
\* prefs, payout, reward points, total stake) exist only for the eras from
\* CurrentEra - HistoryDepth to CurrentEra
C31_RecordsWithinHistory ==
    \A era \in ErasWithRecords :
        /\ IsSome(CurrentEra)
        /\ era <= Unwrap(CurrentEra)
        /\ era + HistoryDepth >= Unwrap(CurrentEra)

\* C31: the records a trigger writes (start session index, exposures,
\* validator prefs, total stake) exist only for the eras from
\* CurrentEra - HistoryDepth to CurrentEra; the payout and the reward points
\* are written for the active era after the trigger, so they stay within
\* that window only for a history depth of at least one era; with a depth of
\* zero they outlive the pruning of their era
C31_TriggerRecordsWithinHistory ==
    /\ \A era \in ErasWithTriggerRecords :
          /\ IsSome(CurrentEra)
          /\ era <= Unwrap(CurrentEra)
          /\ era + HistoryDepth >= Unwrap(CurrentEra)
    /\ \A era \in DOMAIN ErasValidatorReward \cup DOMAIN ErasRewardPoints :
          /\ IsSome(ActiveEra) /\ IsSome(CurrentEra)
          /\ era <= Unwrap(ActiveEra).index
          /\ HistoryDepth >= 1 => era + HistoryDepth >= Unwrap(CurrentEra)

\* with a history depth of 1, era 2 was planned: era 0 has no record left,
\* eras 1 and 2 have theirs and era 1 has its payout
C31_Witness ==
    /\ HistoryDepth = 1
    /\ CurrentEra = Some(2)
    /\ ErasWithRecords = {1, 2}
    /\ DOMAIN ErasStartSessionIndex = {1, 2}
    /\ DOMAIN ErasValidatorReward = {1}
    /\ lastCall.op = "end_session"

\* the voters call returned, bounded or not
VotersReturned == lastCall.op \in {"get_npos_voters_bounded", "get_npos_voters_unbounded"}

\* the record is the self-vote (validator, weight(validator), [validator])
IsSelfVote(voter) ==
    /\ voter[1] \in DOMAIN Validators
    /\ voter = << voter[1], weight_of(Storage, voter[1]), << voter[1] >> >>

\* C32 as stated: in the list the voters call returns, bounded or not, every
\* validator self-vote comes before every nominator record
C32_ValidatorsFirst ==
    VotersReturned =>
        \A i, j \in DOMAIN lastCall.ret :
            (i < j /\ IsSelfVote(lastCall.ret[j])) => IsSelfVote(lastCall.ret[i])

\* C32: under a size or count bound the validator self-votes come first and
\* every nominator record after them; the unbounded call returns the
\* nominator records first and the self-votes of all validators after them
C32_ValidatorsFirstWhenBounded ==
    /\ lastCall.op = "get_npos_voters_bounded" =>
          \A i, j \in DOMAIN lastCall.ret :
              (i < j /\ IsSelfVote(lastCall.ret[j])) => IsSelfVote(lastCall.ret[i])
    /\ lastCall.op = "get_npos_voters_unbounded" =>
          /\ \A i, j \in DOMAIN lastCall.ret :
                (i < j /\ IsSelfVote(lastCall.ret[i])) => IsSelfVote(lastCall.ret[j])
          /\ \A v \in DOMAIN Validators :
                \E i \in DOMAIN lastCall.ret :
                    lastCall.ret[i] = << v, weight_of(Storage, v), << v >> >>
    /\ VotersReturned =>
          \A i \in DOMAIN lastCall.ret :
              IsSelfVote(lastCall.ret[i]) \/ lastCall.ret[i][1] \in DOMAIN Nominators

\* an unbounded call over three validators and two nominators: a nominator
\* record is first, the three self-votes are last
C32_Witness ==
    /\ lastCall.op = "get_npos_voters_unbounded"
    /\ Len(lastCall.ret) = 5
    /\ lastCall.ret[1][1] \in DOMAIN Nominators
    /\ \A i \in 3..5 : IsSelfVote(lastCall.ret[i])

\* a bounded call that returned self-votes followed by a nominator record
C32_BoundedMixed ==
    /\ lastCall.op = "get_npos_voters_bounded"
    /\ Len(lastCall.ret) >= 4
    /\ IsSelfVote(lastCall.ret[1])
    /\ ~IsSelfVote(lastCall.ret[Len(lastCall.ret)])

\* the target was slashed (non-zero) in an era later than the nomination
StaleTarget(target, submitted_in) ==
    /\ target \in DOMAIN SlashingSpans
    /\ SlashingSpans[target].last_nonzero_slash > submitted_in

\* C33: in every list the voters call returns, bounded or not, no nominator
\* record holds a target whose last non-zero slash is later than the era the
\* nomination was submitted in, no nominator record has an empty target list,
\* and a nominator whose targets are all stale has no record
C33_NoStaleTargets ==
    VotersReturned =>
        /\ \A i \in DOMAIN lastCall.ret :
              LET voter == lastCall.ret[i]
              IN  voter[1] \in DOMAIN Nominators =>
                    /\ voter[3] # << >>
                    /\ \A k \in DOMAIN voter[3] :
                          ~StaleTarget(voter[3][k], Nominators[voter[1]].submitted_in)
        /\ \A n \in DOMAIN Nominators :
              (\A k \in DOMAIN Nominators[n].targets :
                    StaleTarget(Nominators[n].targets[k], Nominators[n].submitted_in))
                 => \A i \in DOMAIN lastCall.ret : lastCall.ret[i][1] # n

\* nominator 4 backs only the slashed validator 2 and is left out, while
\* nominator 5 is in the list
C33_Witness ==
    /\ VotersReturned
    /\ 2 \in DOMAIN SlashingSpans
    /\ 4 \in DOMAIN Nominators /\ Nominators[4].targets = << 2 >>
    /\ \A i \in DOMAIN lastCall.ret : lastCall.ret[i][1] # 4
    /\ \E i \in DOMAIN lastCall.ret : lastCall.ret[i][1] = 5

\* nominator 4 backs validators 2 and 3 and is listed with validator 3 only
C33_PartlyStale ==
    /\ lastCall.op = "get_npos_voters_bounded"
    /\ 4 \in DOMAIN Nominators /\ Nominators[4].targets = << 2, 3 >>
    /\ \E i \in DOMAIN lastCall.ret : lastCall.ret[i][1] = 4 /\ lastCall.ret[i][3] = << 3 >>

\* the candidates of the last bounded call in the order they are considered:
\* the validators, then the nominators; votes is the number of targets the
\* tracker is told about, record is what the candidate adds to the list
Candidates ==
    [i \in 1..Len(lastCall.validator_order) |->
        [ votes |-> 1,
          record |-> << << lastCall.validator_order[i],
                           weight_of(Storage, lastCall.validator_order[i]),
                           << lastCall.validator_order[i] >> >> >> ]]
    \o
    [i \in 1..Len(lastCall.nominator_order) |->
        LET n == lastCall.nominator_order[i]
            kept == SelectSeq(Nominators[n].targets,
                        LAMBDA t : ~StaleTarget(t, Nominators[n].submitted_in))
        IN  [ votes |-> Len(Nominators[n].targets),
              record |-> IF kept = << >> THEN << >>
                         ELSE << << n, weight_of(Storage, n), kept >> >> ]]

\* the records of the first k candidates
RECURSIVE RecordsOf(_)
RecordsOf(k) == IF k = 0 THEN << >> ELSE RecordsOf(k - 1) \o Candidates[k].record

\* the bytes the tracker holds once the first k candidates are registered
RECURSIVE TrackedSize(_)
TrackedSize(k) == IF k = 0 THEN 0 ELSE TrackedSize(k - 1) + voter_size(Candidates[k].votes)

\* adding candidate k to the records before it would go over a bound
WouldExhaust(k) ==
    \/ /\ IsSome(lastCall.bounds.size)
       /\ TrackedSize(k) + length_prefix(Len(RecordsOf(k - 1)) + 1) > Unwrap(lastCall.bounds.size)
    \/ /\ IsSome(lastCall.bounds.count)
       /\ Len(RecordsOf(k - 1)) + 1 > Unwrap(lastCall.bounds.count)

\* the first candidate that would go over a bound (one past the end: none)
StopsAt ==
    LET over == {k \in 1..Len(Candidates) : WouldExhaust(k)}
    IN  IF over = {} THEN Len(Candidates) + 1
        ELSE CHOOSE k \in over : \A m \in over : k <= m

\* C34: get_npos_voters_bounded stops at the first candidate whose addition
\* would put the tracked final size over the byte bound or the count over the
\* count bound: it returns the records of exactly the candidates before that
\* one, so none after it even if it would fit, and no nominator when the
\* stop is among the validators
C34_StopsAtFirstOverflow ==
    lastCall.op = "get_npos_voters_bounded" =>
        /\ lastCall.ret = RecordsOf(StopsAt - 1)
        /\ StopsAt <= Len(lastCall.validator_order) =>
              \A i \in DOMAIN lastCall.ret : IsSelfVote(lastCall.ret[i])

\* under a bound of 101 bytes the three validators are in, nominator 5 with
\* two targets does not fit, and nominator 4 behind it, which would fit with
\* its one target, is left out
C34_Witness ==
    /\ lastCall.op = "get_npos_voters_bounded"
    /\ lastCall.bounds = [size |-> Some(101), count |-> None]
    /\ Len(lastCall.validator_order) = 3
    /\ lastCall.nominator_order = << 5, 4 >>
    /\ StopsAt = 4
    /\ Len(lastCall.ret) = 3
    /\ TrackedSize(3) + voter_size(Candidates[5].votes) + length_prefix(4) <= 101

\* the stop is among the validators and nominators are registered
C34_StopAmongValidators ==
    /\ lastCall.op = "get_npos_voters_bounded"
    /\ StopsAt = 2
    /\ Len(lastCall.validator_order) = 3
    /\ Len(lastCall.nominator_order) = 2
    /\ Len(lastCall.ret) = 1

\* an election will be attempted by the next new_session call
RetryDue == CurrentEra = None \/ era_trigger_due(Storage, planned + 1)

\* a new_session call attempts one election with one result: it plans the
\* era with its own session index as the start when the attempt succeeds, and
\* between two new_session calls only a change of the forcing mode can take
\* a due attempt away
AttemptedWhenDue ==
    /\ (RetryDue /\ lastCall'.op \notin {"new_session", "force", "ensure_new_era"}) => RetryDue'
    /\ (RetryDue /\ lastCall'.op = "new_session") =>
          /\ lastCall'.attempted
          /\ lastCall'.index = planned + 1
          /\ IsSome(lastCall'.ret) <=>
                (lastCall'.ok /\ lastCall'.winners >= Max(MinimumValidatorCount, 1))
          /\ IsSome(lastCall'.ret) =>
                /\ triggers' = triggers + 1
                /\ CurrentEra' = Some(IF IsSome(CurrentEra) THEN Unwrap(CurrentEra) + 1 ELSE 0)
                /\ Get(ErasStartSessionIndex', Unwrap(CurrentEra')) = Some(lastCall'.index)

\* C35 as stated: after every failed election attempt at new_session(s) the
\* trigger condition holds at new_session(s + 1), where the election is
\* attempted again and, if it succeeds, plans the era with start session s + 1
C35_FailedAttemptRetried ==
    [][ /\ FailedTrigger => RetryDue'
        /\ AttemptedWhenDue ]_vars

\* C35: after a failed election attempt at new_session(s) that left the era
\* state as it was, the trigger condition holds at new_session(s + 1), where
\* the election is attempted again and, if it succeeds, plans the era with
\* start session s + 1; the failed attempt that recorded era 0 (too few
\* winners while no era was planned) is followed by an attempt only when
\* era 0 is SessionsPerEra sessions old or a new era is forced
C35_UnrecordedFailureRetried ==
    [][ /\ FailedTrigger =>
              IF CurrentEra' = CurrentEra THEN RetryDue'
              ELSE /\ CurrentEra = None /\ CurrentEra' = Some(0)
                   /\ RetryDue' <=> (ForceEra \in {"ForceNew", "ForceAlways"}
                                        \/ SessionsPerEra <= 1)
        /\ AttemptedWhenDue ]_vars

\* the election of a forced era failed at new_session(3): era 0 stays the
\* current era, the mode is still ForceNew and session 4 will try again
C35_Witness ==
    /\ lastCall.op = "new_session"
    /\ lastCall.index = 3
    /\ lastCall.attempted /\ ~lastCall.ok /\ lastCall.ret = None
    /\ CurrentEra = Some(0)
    /\ ForceEra = "ForceNew"
    /\ RetryDue

\* the era planned at session 4 after the attempts of sessions 2 and 3 could
\* not plan it
C35_RetriedLater ==
    /\ lastCall.op = "new_session"
    /\ lastCall.index = 4 /\ IsSome(lastCall.ret)
    /\ CurrentEra = Some(1)
    /\ Get(ErasStartSessionIndex, 0) = Some(0)
    /\ Get(ErasStartSessionIndex, 1) = Some(4)

\* C36: whenever an active era exists a current (planned) era exists and
\* ActiveEra.index <= CurrentEra: no era is started before it was planned
C36_ActiveEraWasPlanned ==
    IsSome(ActiveEra) =>
        /\ IsSome(CurrentEra)
        /\ Unwrap(ActiveEra).index <= Unwrap(CurrentEra)

\* era 2 has just become active while era 3 is already planned
C36_Witness ==
    /\ lastCall.op = "start_session"
    /\ IsSome(ActiveEra) /\ Unwrap(ActiveEra).index = 2
    /\ CurrentEra = Some(3)

\* C37: every era key that holds a non-empty list of unapplied slashes is at
\* or above the earliest-unapplied watermark, and the watermark is set
\* whenever the queue is non-empty: no queued slash lies behind the watermark
C37_QueueAtOrAboveWatermark ==
    \A era \in DOMAIN UnappliedSlashes :
        UnappliedSlashes[era] # << >> =>
            /\ IsSome(EarliestUnappliedSlash)
            /\ era >= Unwrap(EarliestUnappliedSlash)

\* era 2 is active with the watermark at 1: the slash queued in era 1 waits
\* at the watermark and the one queued in era 2 above it
C37_Witness ==
    /\ IsSome(ActiveEra) /\ Unwrap(ActiveEra).index = 2
    /\ EarliestUnappliedSlash = Some(1)
    /\ GetOr(UnappliedSlashes, 1, << >>) # << >>
    /\ GetOr(UnappliedSlashes, 2, << >>) # << >>

\* C38: with the session calls in order, no forcing and elections that
\* succeed, every planned era eventually becomes the active era, the active
\* era is never more than one behind the current era, and consecutive eras
\* start exactly SessionsPerEra sessions apart
C38_PlannedErasBecomeActive ==
    /\ [](IsSome(CurrentEra) =>
            /\ IsSome(ActiveEra) => Unwrap(CurrentEra) <= Unwrap(ActiveEra).index + 1
            /\ ActiveEra = None => CurrentEra = Some(0)
            /\ \A era \in DOMAIN ErasStartSessionIndex :
                  era + 1 \in DOMAIN ErasStartSessionIndex =>
                      ErasStartSessionIndex[era + 1] =
                          ErasStartSessionIndex[era] + SessionsPerEra)
    /\ \A era \in 0..MaxSession :
          (CurrentEra = Some(era)) ~> (IsSome(ActiveEra) /\ Unwrap(ActiveEra).index = era)

\* era 3 is planned to start at session 6, after era 2 that started at
\* session 4 and is still the active era
C38_Witness ==
    /\ CurrentEra = Some(3)
    /\ IsSome(ActiveEra) /\ Unwrap(ActiveEra).index = 2
    /\ Get(ErasStartSessionIndex, 2) = Some(4)
    /\ Get(ErasStartSessionIndex, 3) = Some(6)

\* C39: the payout of an era is written at most once: only by the end_era of
\* an end_session call made while that era is the active era, never over a
\* payout that is already there, and a written payout changes only by being
\* removed when the trigger of era + HistoryDepth + 1 prunes the era
C39_PayoutWrittenOnce ==
    [][ /\ \A era \in 0..MaxSession :
              Get(ErasValidatorReward', era) # Get(ErasValidatorReward, era) =>
                  \/ /\ Get(ErasValidatorReward, era) = None
                     /\ lastCall'.op = "end_session"
                     /\ SuccessorStartsNext
                     /\ Unwrap(ActiveEra).index = era
                     /\ IsSome(Unwrap(ActiveEra).start)
                  \/ /\ Get(ErasValidatorReward', era) = None
                     /\ lastCall'.op = "new_session"
                     /\ IsSome(lastCall'.ret)
                     /\ Unwrap(CurrentEra') = era + HistoryDepth + 1
        /\ (lastCall'.op = "end_session" /\ SuccessorStartsNext
               /\ IsSome(Unwrap(ActiveEra).start)) =>
              /\ Get(ErasValidatorReward, Unwrap(ActiveEra).index) = None
              /\ IsSome(Get(ErasValidatorReward', Unwrap(ActiveEra).index)) ]_vars

\* the payout of era 1 was written by end_session(3), the last session
\* before era 2 starts
C39_Witness ==
    /\ lastCall.op = "end_session" /\ lastCall.index = 3
    /\ IsSome(ActiveEra) /\ Unwrap(ActiveEra).index = 1
    /\ DOMAIN ErasValidatorReward = {1}
    /\ CurrentEra = Some(2)
    /\ Get(ErasStartSessionIndex, 2) = Some(4)

\* the payout of era 0 was removed by the trigger that planned era 2
C39_Pruned ==
    /\ lastCall.op = "new_session" /\ IsSome(lastCall.ret)
    /\ CurrentEra = Some(2)
    /\ Get(ErasValidatorReward, 0) = None
    /\ IsSome(ActiveEra) /\ Unwrap(ActiveEra).index = 1

\* ------------------------------------------------------------------------
\* C40: a Staked payout and the deposit behind it
\* ------------------------------------------------------------------------
StakedWithLedger(stash) ==
    /\ GetOr(Payee, stash, "Staked") = "Staked"
    /\ IsSome(Get(Bonded, stash))
    /\ IsSome(Get(Ledger, Unwrap(Get(Bonded, stash))))

LedgerRaise(stash) ==
    LET controller == Unwrap(Get(Bonded, stash))
    IN  [ active |-> Ledger'[controller].active - Ledger[controller].active,
          total |-> Ledger'[controller].total - Ledger[controller].total ]

Deposited(stash) == GetOr(Balances', stash, 0) - GetOr(Balances, stash, 0)

\* C40: in a payout, the ledger of a staker whose reward destination is Staked
\* grows, in active and in total, by exactly what was deposited into the stash
\* balance; nothing deposited, nothing added to the ledger.
C40_LedgerFollowsDeposit ==
    [][ lastCall'.op = "payout" =>
          \A stash \in Stashes :
              StakedWithLedger(stash) =>
                  /\ LedgerRaise(stash).active = Deposited(stash)
                  /\ LedgerRaise(stash).total = Deposited(stash) ]_vars

\* what the code does keep: active and total grow together, by the deposit
\* whenever one was made
C40_LedgerFollowsSuccessfulDeposit ==
    [][ lastCall'.op = "payout" =>
          \A stash \in Stashes :
              StakedWithLedger(stash) =>
                  /\ LedgerRaise(stash).active = LedgerRaise(stash).total
                  /\ Deposited(stash) > 0 => LedgerRaise(stash).active = Deposited(stash)
                  /\ Deposited(stash) >= 0 ]_vars

\* a payout has left stash 1 with more locked under its ledger than it owns
C40_LedgerAboveBalance ==
    /\ lastCall.op = "payout"
    /\ Ledger[ControllerOf(1)].total > Balances[1]
    /\ Locks[1] = Ledger[ControllerOf(1)].total
    /\ Balances[1] = GenesisStake(1) + 1

\* a payout to stash 1 whose deposit was made
C40_Deposited ==
    /\ lastCall.op = "payout"
    /\ Balances[1] > GenesisStake(1) + 1
    /\ Ledger[ControllerOf(1)].total = Balances[1] - 1
=============================================================================
